---- MODULE Spec2Model ----
(***************************************************************************)
(* A model of strfrui's sifter combinators (Pipeline, OneOf, the modifier  *)
(* wrapper with its guards) and of its rate-limiting sifter.               *)
(***************************************************************************)
EXTENDS Integers, Sequences, FiniteSets, TLC

(***************************************************************************)
(* Bounds of the model.                                                    *)
(***************************************************************************)
MaxChildren == 2

\* The configuration calls made on a OneOf before it is used.
MaxConfigCalls == 2

\* The clock of the rate limiter runs from 0 to MaxTime.
MaxTime == 3

\* The emission intervals (in clock ticks) and the bursts of the quotas.
MaxPeriod == 2

MaxBurst == 1

(***************************************************************************)
(* Inputs, results and errors.                                             *)
(***************************************************************************)
ActionAccept == "accept"
ActionReject == "reject"
ActionShadowReject == "shadowReject"

\* Go's nil error.
NoErr == ""

\* Go's nil *Result.
NilResult == [ID |-> "", Action |-> "nil", Msg |-> ""]

\* The event IDs of the requests.
EventIDs == {"id1", "id2"}

\* An Input: the fields of the request and of its event that sifters read.
Input(id, pubkey, kind, sourceType, sourceInfo) ==
  [ID |-> id, PubKey |-> pubkey, Kind |-> kind, SourceType |-> sourceType,
   SourceInfo |-> sourceInfo]

\* The requests handed to the combinators, which read only the event ID.
Inputs == {Input(id, "pubkey", 1, "IP4", "192.168.1.1") : id \in EventIDs}

\* SourceType.IsEndUser
IsEndUser(sourceType) == sourceType \in {"IP4", "IP6"}

\* The strings netip.ParseAddr parses, among those the model uses.
ValidIPAddrs == {"192.168.1.1", "192.168.1.2"}

\* A source info that is no IP address.
UnknownSource == "???"

\* What a call of Sift hands back: (res, err), or a run-time panic.
Return(res, err) == [res |-> res, err |-> err, panicked |-> FALSE]

\* Dereferencing a nil *Result (res.Action) panics.
Panic == [res |-> NilResult, err |-> NoErr, panicked |-> TRUE]

\* input.Accept()
Accept(input) ==
  Return([ID |-> input.ID, Action |-> ActionAccept, Msg |-> ""], NoErr)

\* input.Reject(msg)
Reject(input, msg) ==
  Return([ID |-> input.ID, Action |-> ActionReject, Msg |-> msg], NoErr)

\* input.ShadowReject()
InputShadowReject(input) ==
  Return([ID |-> input.ID, Action |-> ActionShadowReject, Msg |-> ""], NoErr)

(***************************************************************************)
(* Rejection strategies (RejectionFn).                                     *)
(***************************************************************************)
\* A message computed from the input, as handed to RejectWithMsgFromInput.
MsgFromID == [id \in EventIDs |-> IF id = "id1" THEN "msg for id1" ELSE "msg for id2"]

ShadowReject == [fn |-> "ShadowReject", msg |-> "", getMsg |-> <<>>]

RejectWithMsg(msg) == [fn |-> "RejectWithMsg", msg |-> msg, getMsg |-> <<>>]

RejectWithMsgFromInput(getMsg) ==
  [fn |-> "RejectWithMsgFromInput", msg |-> "", getMsg |-> getMsg]

\* Mutant of ApplyRejection: the result does not carry the ID of the event.
ApplyRejection_NoID(reject, input) ==
  CASE reject.fn = "ShadowReject" ->
         [ID |-> "", Action |-> ActionShadowReject, Msg |-> ""]
    [] reject.fn = "RejectWithMsg" ->
         [ID |-> "", Action |-> ActionReject, Msg |-> reject.msg]
    [] reject.fn = "RejectWithMsgFromInput" ->
         [ID |-> "", Action |-> ActionReject, Msg |-> reject.getMsg[input.ID]]

\* Calling a RejectionFn on an input.
ApplyRejection(reject, input) ==
  CASE reject.fn = "ShadowReject" ->
         [ID |-> input.ID, Action |-> ActionShadowReject, Msg |-> ""]
    [] reject.fn = "RejectWithMsg" ->
         [ID |-> input.ID, Action |-> ActionReject, Msg |-> reject.msg]
    [] reject.fn = "RejectWithMsgFromInput" ->
         [ID |-> input.ID, Action |-> ActionReject, Msg |-> reject.getMsg[input.ID]]

DefaultOneOfMsg == "blocked: any of sub-sifters didn't accept the event"

(***************************************************************************)
(* Leaf sifters: the sifter functions the combinators are composed of.     *)
(***************************************************************************)
acceptAll == [type |-> "acceptAll"]

rejectAll(msg) == [type |-> "rejectAll", msg |-> msg]

shadowRejectAll == [type |-> "shadowRejectAll"]

\* A sifter unit whose matcher fails with error e.
failingUnit(e) == [type |-> "failingUnit", err |-> e]

(***************************************************************************)
(* Built-in leaf units (sifterUnit): a matcher, a mode and a rejection     *)
(* strategy.                                                               *)
(***************************************************************************)
\* Mode
Allow == 1

Deny == 2

\* inputMatchResult
inputMatch == 1

inputMismatch == 2

inputAlwaysAccept == 3

inputAlwaysReject == 4

\* Mutant of matchResultFromBool: the error of the matcher is dropped and
\* the input counts as one to reject.
matchResultFromBool_DropsError(b, err) ==
  IF err # NoErr THEN [res |-> inputAlwaysReject, err |-> NoErr]
  ELSE IF b THEN [res |-> inputMatch, err |-> NoErr]
  ELSE [res |-> inputMismatch, err |-> NoErr]

matchResultFromBool(b, err) ==
  IF err # NoErr THEN [res |-> inputAlwaysReject, err |-> err]
  ELSE IF b THEN [res |-> inputMatch, err |-> NoErr]
  ELSE [res |-> inputMismatch, err |-> NoErr]

\* Mutants of shouldAccept: the mode is not looked at; an unknown mode is
\* taken for Deny.
shouldAccept_IgnoresMode(matchRes, mode) ==
  matchRes \in {inputAlwaysAccept, inputMatch}

shouldAccept_UnknownModeDenies(matchRes, mode) ==
  CASE matchRes = inputAlwaysAccept -> TRUE
    [] matchRes = inputAlwaysReject -> FALSE
    [] matchRes = inputMatch -> mode = Allow
    [] matchRes = inputMismatch -> mode # Allow
    [] OTHER -> FALSE

shouldAccept(matchRes, mode) ==
  CASE matchRes = inputAlwaysAccept -> TRUE
    [] matchRes = inputAlwaysReject -> FALSE
    [] matchRes = inputMatch ->
         (CASE mode = Allow -> TRUE
            [] mode = Deny -> FALSE
            [] OTHER -> FALSE)
    [] matchRes = inputMismatch ->
         (CASE mode = Allow -> FALSE
            [] mode = Deny -> TRUE
            [] OTHER -> FALSE)
    [] OTHER -> FALSE

selectMsgByMode(mode, msgAllow, msgDeny) ==
  CASE mode = Allow -> msgAllow
    [] mode = Deny -> msgDeny
    [] OTHER -> ""

rejectWithMsgPerMode(mode, msgAllow, msgDeny) ==
  RejectWithMsg(selectMsgByMode(mode, msgAllow, msgDeny))

newSifterUnit(matchInput, mode, defaultRejFn) ==
  [type |-> "sifterUnit", match |-> matchInput, mode |-> mode,
   reject |-> defaultRejFn]

\* A matcher func(netip.Addr) (bool, error): it returns true on the
\* addresses in matches and fails on those in fails.
AddrMatcher(matches, fails) == [matches |-> matches, fails |-> fails]

\* SourceIPMatcher(matcher, mode, modeForUnknownSource)
SourceIPMatcher(matcher, mode, modeForUnknownSource) ==
  newSifterUnit([fn |-> "SourceIPMatcher", matcher |-> matcher,
                 modeForUnknownSource |-> modeForUnknownSource],
                mode,
                rejectWithMsgPerMode(mode,
                  "blocked: source IP is not in the whitelist",
                  "blocked: source IP is in the blacklist"))

\* The closure matchInput of SourceIPMatcher.
matchInput(m, i) ==
  IF ~IsEndUser(i.SourceType) THEN [res |-> inputAlwaysAccept, err |-> NoErr]
  ELSE IF i.SourceInfo \notin ValidIPAddrs
    THEN IF m.modeForUnknownSource = Allow
           THEN [res |-> inputAlwaysAccept, err |-> NoErr]
           ELSE [res |-> inputAlwaysReject, err |-> NoErr]
  ELSE matchResultFromBool(i.SourceInfo \in m.matcher.matches,
                           IF i.SourceInfo \in m.matcher.fails
                             THEN "matcher failed" ELSE NoErr)

\* A fallible matcher func(x) (bool, error) on pubkeys or kinds: it returns
\* true on the values in matches and fails on those in fails.
FallibleMatcher(matches, fails) == [matches |-> matches, fails |-> fails]

\* AuthorMatcher(matcher, mode)
AuthorMatcher(matcher, mode) ==
  newSifterUnit([fn |-> "AuthorMatcher", matcher |-> matcher], mode,
                rejectWithMsgPerMode(mode,
                  "blocked: event author is not in the whitelist",
                  "blocked: event author is in the blacklist"))

\* The closure matchInput of AuthorMatcher.
matchInputAuthor(m, i) ==
  matchResultFromBool(i.PubKey \in m.matcher.matches,
                      IF i.PubKey \in m.matcher.fails
                        THEN "matcher failed" ELSE NoErr)

\* KindMatcherFallible(matcher, mode)
KindMatcherFallible(matcher, mode) ==
  newSifterUnit([fn |-> "KindMatcherFallible", matcher |-> matcher], mode,
                rejectWithMsgPerMode(mode,
                  "blocked: the kind of the event is not in the whitelist",
                  "blocked: the kind of the event is in the blacklist"))

\* The closure matchInput of KindMatcherFallible.
matchInputKind(m, i) ==
  matchResultFromBool(i.Kind \in m.matcher.matches,
                      IF i.Kind \in m.matcher.fails
                        THEN "matcher failed" ELSE NoErr)

\* RelativeTimeRange{MaxPastDelta, MaxFutureDelta}
RelativeTimeRange(maxPastDelta, maxFutureDelta) ==
  [MaxPastDelta |-> maxPastDelta, MaxFutureDelta |-> maxFutureDelta]

\* RelativeTimeRange.Contains(t) when clock.now() returns clockNow.
Contains(r, t, clockNow) ==
  LET okPast == r.MaxPastDelta = 0 \/ ~(t < clockNow - r.MaxPastDelta)
      okFuture == r.MaxFutureDelta = 0 \/ ~(t > clockNow + r.MaxFutureDelta)
  IN  okPast /\ okFuture

\* An input whose event was created at createdAt, handed to a call of Sift
\* during which clock.now() returns clockNow.
Timed(in, createdAt, clockNow) ==
  [ID |-> in.ID, PubKey |-> in.PubKey, Kind |-> in.Kind,
   SourceType |-> in.SourceType, SourceInfo |-> in.SourceInfo,
   CreatedAt |-> createdAt, clockNow |-> clockNow]

\* CreatedAtRange(timeRange, mode)
CreatedAtRange(timeRange, mode) ==
  newSifterUnit([fn |-> "CreatedAtRange", timeRange |-> timeRange], mode,
                rejectWithMsgPerMode(mode,
                  "invalid: event timestamp is out of the range",
                  "blocked: event timestamp must be out of the range"))

\* Mutant of matchInputCreatedAt: the range is taken from the time 0, not
\* from the clock.
matchInputCreatedAt_NoClock(m, i) ==
  matchResultFromBool(Contains(m.timeRange, i.CreatedAt, 0), NoErr)

\* The closure matchInput of CreatedAtRange.
matchInputCreatedAt(m, i) ==
  matchResultFromBool(Contains(m.timeRange, i.CreatedAt, i.clockNow), NoErr)

\* s.match(input), by the constructor that made the closure.
sifterUnitMatch(m, i) ==
  CASE m.fn = "SourceIPMatcher" -> matchInput(m, i)
    [] m.fn = "AuthorMatcher" -> matchInputAuthor(m, i)
    [] m.fn = "KindMatcherFallible" -> matchInputKind(m, i)
    [] m.fn = "CreatedAtRange" -> matchInputCreatedAt(m, i)

\* Mutant of sifterUnitSift: a rejected input is always rejected with the
\* default message of the unit's mode.
sifterUnitSift_DefaultRejection(s, input) ==
  LET m == sifterUnitMatch(s.match, input)
  IN  IF m.err # NoErr THEN Return(NilResult, m.err)
      ELSE IF shouldAccept(m.res, s.mode) THEN Accept(input)
      ELSE Return(ApplyRejection(
                    rejectWithMsgPerMode(s.mode,
                      "blocked: source IP is not in the whitelist",
                      "blocked: source IP is in the blacklist"), input),
                  NoErr)

\* sifterUnit.Sift
sifterUnitSift(s, input) ==
  LET m == sifterUnitMatch(s.match, input)
  IN  IF m.err # NoErr THEN Return(NilResult, m.err)
      ELSE IF shouldAccept(m.res, s.mode) THEN Accept(input)
      ELSE Return(ApplyRejection(s.reject, input), NoErr)

(***************************************************************************)
(* The modifier wrapper.                                                   *)
(***************************************************************************)
\* onlyIfCond is a pointer: <<>> is nil, <<c>> points to the condition c.
WithMod(s) ==
  [type |-> "modded", s |-> s, label |-> "", acceptEarly |-> FALSE,
   onlyIfCond |-> <<>>]

Label(m, label) == [m EXCEPT !.label = label]

AcceptEarly(m) == [m EXCEPT !.acceptEarly = TRUE]

OnlyIf(m, cond) ==
  [m EXCEPT !.onlyIfCond = <<[cond |-> cond, ifAccepted |-> TRUE]>>]

OnlyIfNot(m, cond) ==
  [m EXCEPT !.onlyIfCond = <<[cond |-> cond, ifAccepted |-> FALSE]>>]

\* fmt.Sprintf("sifter #%d", i)
DefaultLabel(i) == "sifter #" \o ToString(i)

assignDefaultLabelsToSifters(ss) ==
  [i \in 1..Len(ss) |->
     IF ss[i].type # "modded" THEN Label(WithMod(ss[i]), DefaultLabel(i - 1))
     ELSE IF ss[i].label = "" THEN Label(ss[i], DefaultLabel(i - 1))
     ELSE ss[i]]

Pipeline(ss) ==
  [type |-> "pipeline", children |-> assignDefaultLabelsToSifters(ss)]

OneOf(ss) ==
  [type |-> "oneOf", children |-> assignDefaultLabelsToSifters(ss),
   reject |-> RejectWithMsg(DefaultOneOfMsg)]

(***************************************************************************)
(* Sift.  A call hands back Return(res, err) or Panic, together with the   *)
(* log of the guard conditions and children the combinator evaluated, in   *)
(* order: <<"cond", i>> for the guard of child i, <<"sift", i>> for child  *)
(* i itself.                                                               *)
(***************************************************************************)
RECURSIVE Sift(_, _)
RECURSIVE pipelineLoop(_, _, _, _, _)
RECURSIVE oneOfLoop(_, _, _, _)

WithCalls(r, calls) ==
  [res |-> r.res, err |-> r.err, panicked |-> r.panicked, calls |-> calls]

\* Mutants of evalCond: the required polarity is ignored; a failure of the
\* condition counts as the condition not being met.
evalCond_IgnoresPolarity(c, input) ==
  LET r == Sift(c.cond, input)
  IN  IF r.panicked THEN [condMet |-> FALSE, err |-> NoErr, panicked |-> TRUE]
      ELSE IF r.err # NoErr
        THEN [condMet |-> FALSE, err |-> r.err, panicked |-> FALSE]
      ELSE IF r.res = NilResult
        THEN [condMet |-> FALSE, err |-> NoErr, panicked |-> TRUE]
      ELSE [condMet |-> r.res.Action = ActionAccept, err |-> NoErr,
            panicked |-> FALSE]

evalCond_SwallowsFailure(c, input) ==
  LET r == Sift(c.cond, input)
  IN  IF r.panicked THEN [condMet |-> FALSE, err |-> NoErr, panicked |-> TRUE]
      ELSE IF r.err # NoErr
        THEN [condMet |-> FALSE, err |-> NoErr, panicked |-> FALSE]
      ELSE IF r.res = NilResult
        THEN [condMet |-> FALSE, err |-> NoErr, panicked |-> TRUE]
      ELSE IF c.ifAccepted = (r.res.Action = ActionAccept)
        THEN [condMet |-> TRUE, err |-> NoErr, panicked |-> FALSE]
      ELSE [condMet |-> FALSE, err |-> NoErr, panicked |-> FALSE]

\* onlyIfCond.evalCond: (condMet, err), or a panic.
evalCond(c, input) ==
  LET r == Sift(c.cond, input)
  IN  IF r.panicked THEN [condMet |-> FALSE, err |-> NoErr, panicked |-> TRUE]
      ELSE IF r.err # NoErr
        THEN [condMet |-> FALSE, err |-> r.err, panicked |-> FALSE]
      ELSE IF r.res = NilResult
        THEN [condMet |-> FALSE, err |-> NoErr, panicked |-> TRUE]
      ELSE IF c.ifAccepted = (r.res.Action = ActionAccept)
        THEN [condMet |-> TRUE, err |-> NoErr, panicked |-> FALSE]
      ELSE [condMet |-> FALSE, err |-> NoErr, panicked |-> FALSE]

\* Mutants of pipelineReturns: a shadow-rejection does not stop the Pipeline;
\* no fail-fast; the accept-early flag is ignored.
pipelineReturns_ShadowPasses(child, res) ==
  \/ child.acceptEarly /\ res.Action = ActionAccept
  \/ res.Action = ActionReject

pipelineReturns_NoFailFast(child, res) ==
  child.acceptEarly /\ res.Action = ActionAccept

pipelineReturns_NoAcceptEarly(child, res) == res.Action # ActionAccept

\* Mutant of pipelineReturns: the rejection of an accept-early child does
\* not stop the Pipeline.
pipelineReturns_EarlyChildPasses(child, res) ==
  \/ child.acceptEarly /\ res.Action = ActionAccept
  \/ ~child.acceptEarly /\ res.Action # ActionAccept

\* What Pipeline does with the decision res of child: return it, or go on.
pipelineReturns(child, res) ==
  \/ child.acceptEarly /\ res.Action = ActionAccept
  \/ res.Action # ActionAccept

\* What Pipeline returns after the loop.
pipelineFallThrough(res, input) == Return(res, NoErr)

\* The for loop of pipelineSifter.Sift from child i on; res is the local res.
pipelineLoop(s, input, i, res, calls) ==
  IF i > Len(s.children) THEN WithCalls(pipelineFallThrough(res, input), calls)
  ELSE
    LET child == s.children[i]
        guarded == child.onlyIfCond # <<>>
        c == IF guarded THEN evalCond(child.onlyIfCond[1], input)
             ELSE [condMet |-> TRUE, err |-> NoErr, panicked |-> FALSE]
        calls1 == IF guarded THEN Append(calls, <<"cond", i>>) ELSE calls
    IN  IF c.panicked THEN WithCalls(Panic, calls1)
        ELSE IF c.err # NoErr THEN WithCalls(Return(NilResult, c.err), calls1)
        ELSE IF ~c.condMet THEN pipelineLoop(s, input, i + 1, res, calls1)
        ELSE
          LET r == Sift(child, input)
              calls2 == Append(calls1, <<"sift", i>>)
          IN  IF r.panicked THEN WithCalls(Panic, calls2)
              ELSE IF r.err # NoErr
                THEN WithCalls(Return(NilResult, r.err), calls2)
              ELSE IF r.res = NilResult THEN WithCalls(Panic, calls2)
              ELSE IF pipelineReturns(child, r.res)
                THEN WithCalls(Return(r.res, NoErr), calls2)
              ELSE pipelineLoop(s, input, i + 1, r.res, calls2)

\* Mutant of oneOfReturns: only a Reject keeps OneOf going.
oneOfReturns_ShadowStops(child, res) == res.Action # ActionReject

\* Mutant of oneOfReturns: the decision of a child with the accept-early
\* flag is returned whatever it is.
oneOfReturns_EarlyChildDecides(child, res) ==
  child.acceptEarly \/ res.Action = ActionAccept

\* What OneOf does with the decision res of a child: return it, or go on.
oneOfReturns(child, res) == res.Action = ActionAccept

\* Mutant of oneOfFallThrough: the configured strategy is ignored.
oneOfFallThrough_AlwaysDefault(s, input) ==
  Return(ApplyRejection(RejectWithMsg(DefaultOneOfMsg), input), NoErr)

\* What OneOf returns after the loop.
oneOfFallThrough(s, input) == Return(ApplyRejection(s.reject, input), NoErr)

\* The for loop of oneOfSifter.Sift from child i on.
oneOfLoop(s, input, i, calls) ==
  IF i > Len(s.children) THEN WithCalls(oneOfFallThrough(s, input), calls)
  ELSE
    LET child == s.children[i]
        guarded == child.onlyIfCond # <<>>
        c == IF guarded THEN evalCond(child.onlyIfCond[1], input)
             ELSE [condMet |-> TRUE, err |-> NoErr, panicked |-> FALSE]
        calls1 == IF guarded THEN Append(calls, <<"cond", i>>) ELSE calls
    IN  IF c.panicked THEN WithCalls(Panic, calls1)
        ELSE IF c.err # NoErr THEN WithCalls(Return(NilResult, c.err), calls1)
        ELSE IF ~c.condMet THEN oneOfLoop(s, input, i + 1, calls1)
        ELSE
          LET r == Sift(child, input)
              calls2 == Append(calls1, <<"sift", i>>)
          IN  IF r.panicked THEN WithCalls(Panic, calls2)
              ELSE IF r.err # NoErr
                THEN WithCalls(Return(NilResult, r.err), calls2)
              ELSE IF r.res = NilResult THEN WithCalls(Panic, calls2)
              ELSE IF oneOfReturns(child, r.res)
                THEN WithCalls(Return(r.res, NoErr), calls2)
              ELSE oneOfLoop(s, input, i + 1, calls2)

\* Mutant of moddedSift: a failure of the wrapped sifter becomes a Reject.
moddedSift_DowngradesFailure(s, input) ==
  LET r == Sift(s.s, input)
  IN  IF ~r.panicked /\ r.err # NoErr
        THEN WithCalls(Reject(input, "error"), r.calls)
        ELSE r

\* Mutant of moddedSift: the wrapper evaluates its own guard, fails when the
\* guard does and accepts when the guard is not met.
moddedSift_EvaluatesGuard(s, input) ==
  IF s.onlyIfCond = <<>> THEN Sift(s.s, input)
  ELSE LET c == evalCond(s.onlyIfCond[1], input)
       IN  IF c.panicked THEN WithCalls(Panic, <<>>)
           ELSE IF c.err # NoErr THEN WithCalls(Return(NilResult, c.err), <<>>)
           ELSE IF ~c.condMet THEN WithCalls(Accept(input), <<>>)
           ELSE Sift(s.s, input)

\* moddedSifter.Sift: the modifiers don't change the underlying sifter.
moddedSift(s, input) == Sift(s.s, input)

\* shouldAccept(matched bool, m Mode) of the sifters that are structs of
\* their own.
shouldAcceptMatched(matched, m) ==
  CASE m = Allow -> matched
    [] m = Deny -> ~matched
    [] OTHER -> FALSE

\* SourceIPMatcher and SourceIPPrefixList that make a sourceIPSifter: the
\* matcher func(netip.Addr) bool returns true on the addresses in matches.
sourceIPSifter(matches, mode, modeForUnknownSource) ==
  [type |-> "sourceIPSifter", matchWithSourceIP |-> matches, mode |-> mode,
   modeForUnknownSource |-> modeForUnknownSource,
   reject |-> RejectWithMsg("blocked: source IP not allowed")]

\* sourceIPSifter.Sift
sourceIPSift(s, input) ==
  IF IsEndUser(input.SourceType) THEN Accept(input)
  ELSE IF input.SourceInfo \notin ValidIPAddrs
    THEN IF shouldAcceptMatched(TRUE, s.modeForUnknownSource)
           THEN Accept(input)
           ELSE Reject(input,
                       "blocked: this relay blocks events from unknown sources")
  ELSE IF shouldAcceptMatched(input.SourceInfo \in s.matchWithSourceIP, s.mode)
    THEN Accept(input)
  ELSE Return(ApplyRejection(s.reject, input), NoErr)

\* IfThen(cond, body): body is evaluated only if cond accepts.
IfThen(cond, body) ==
  [type |-> "ifThen", cond |-> cond, body |-> body, ifAccepted |-> TRUE]

\* IfNotThen(cond, body): body is evaluated only if cond does not accept.
IfNotThen(cond, body) ==
  [type |-> "ifThen", cond |-> cond, body |-> body, ifAccepted |-> FALSE]

\* Mutant of ifThenSift: the body is evaluated whatever the condition
\* returned.
ifThenSift_AlwaysEvaluatesBody(s, input) ==
  LET c == evalCond(s, input)
      b == Sift(s.body, input)
  IN  IF c.panicked THEN WithCalls(Panic, <<<<"cond", 1>>>>)
      ELSE IF c.err # NoErr
        THEN WithCalls(Return(NilResult, c.err), <<<<"cond", 1>>>>)
      ELSE WithCalls(b, <<<<"cond", 1>>, <<"sift", 1>>>>)

\* The Sift of a conditional: the condition is evaluated, and its failure
\* is the failure of the conditional; the body is evaluated and its return
\* handed back if the condition's action has the required polarity, and the
\* input is accepted otherwise.
ifThenSift(s, input) ==
  LET c == evalCond(s, input)
      b == Sift(s.body, input)
  IN  IF c.panicked THEN WithCalls(Panic, <<<<"cond", 1>>>>)
      ELSE IF c.err # NoErr
        THEN WithCalls(Return(NilResult, c.err), <<<<"cond", 1>>>>)
      ELSE IF c.condMet THEN WithCalls(b, <<<<"cond", 1>>, <<"sift", 1>>>>)
      ELSE WithCalls(Accept(input), <<<<"cond", 1>>>>)

\* s.Sift(input), by the dynamic type of s.
Sift(s, input) ==
  CASE s.type = "acceptAll" -> WithCalls(Accept(input), <<>>)
    [] s.type = "rejectAll" -> WithCalls(Reject(input, s.msg), <<>>)
    [] s.type = "shadowRejectAll" -> WithCalls(InputShadowReject(input), <<>>)
    [] s.type = "failingUnit" -> WithCalls(Return(NilResult, s.err), <<>>)
    [] s.type = "sifterUnit" -> WithCalls(sifterUnitSift(s, input), <<>>)
    [] s.type = "modded" -> moddedSift(s, input)
    [] s.type = "pipeline" -> pipelineLoop(s, input, 1, NilResult, <<>>)
    [] s.type = "oneOf" -> oneOfLoop(s, input, 1, <<>>)
    [] s.type = "ifThen" -> ifThenSift(s, input)
    [] s.type = "sourceIPSifter" -> WithCalls(sourceIPSift(s, input), <<>>)

(***************************************************************************)
(* The rate-limiting sifter (package ratelimit).                           *)
(***************************************************************************)
\* UserKey
IPAddr == 1

PubKey == 2

\* A Quota: one request per period clock ticks, with burst MaxBurst.
Quota(period, burst) == [period |-> period, MaxBurst |-> burst]

\* Mutant of isValidIPAddr: every string passes.
isValidIPAddr_AcceptsAll(s) == TRUE

isValidIPAddr(s) == s \in ValidIPAddrs


\* The public keys of the events.
PubKeys == {"1", "2"}

\* The kinds of the events: 1 and 7 are regular kinds, 0 a replaceable one.
Kinds == {0, 1, 7}

\* fmt.Sprintf("%s/%d", id, kind)
KindKey(id, kind) == id \o "/" \o ToString(kind)

\* The keys of the limiter's store; a key with no state holds NoTAT.
LimitKeys ==
  PubKeys \cup ValidIPAddrs \cup {UnknownSource}
    \cup {KindKey(id, k) :
            id \in PubKeys \cup ValidIPAddrs \cup {UnknownSource}, k \in Kinds}

NoTAT == -1

EmptyStore == [k \in LimitKeys |-> NoTAT]

\* An exclude function: it matches the inputs of the public keys in pubkeys.
ExcludePubKeys(pubkeys) == [pubkeys |-> pubkeys]

\* ByUser(quota, uk), by way of newSifterUnit.
ByUser(quota, uk) ==
  [type |-> "rateLimit", limiter |-> quota, uk |-> uk,
   exclude |-> ExcludePubKeys({}),
   reject |-> RejectWithMsg("rate-limited: rate limit exceeded")]

\* Mutants of deriveLimitKey: the public key is the key in both modes; the
\* source of the request is not looked at.
deriveLimitKey_KeysByPubKey(uk, input) ==
  IF ~IsEndUser(input.SourceType) THEN [shouldLimit |-> FALSE, key |-> ""]
  ELSE CASE uk = IPAddr ->
              IF isValidIPAddr(input.SourceInfo)
                THEN [shouldLimit |-> TRUE, key |-> input.PubKey]
                ELSE [shouldLimit |-> FALSE, key |-> ""]
         [] uk = PubKey -> [shouldLimit |-> TRUE, key |-> input.PubKey]
         [] OTHER -> [shouldLimit |-> FALSE, key |-> ""]

deriveLimitKey_IgnoresSource(uk, input) ==
  CASE uk = IPAddr ->
         IF isValidIPAddr(input.SourceInfo)
           THEN [shouldLimit |-> TRUE, key |-> input.SourceInfo]
           ELSE [shouldLimit |-> FALSE, key |-> ""]
    [] uk = PubKey -> [shouldLimit |-> TRUE, key |-> input.PubKey]
    [] OTHER -> [shouldLimit |-> FALSE, key |-> ""]

\* deriveLimitKey of ByUser: (shouldLimit, key).
deriveLimitKey(uk, input) ==
  IF ~IsEndUser(input.SourceType) THEN [shouldLimit |-> FALSE, key |-> ""]
  ELSE CASE uk = IPAddr ->
              IF isValidIPAddr(input.SourceInfo)
                THEN [shouldLimit |-> TRUE, key |-> input.SourceInfo]
                ELSE [shouldLimit |-> FALSE, key |-> ""]
         [] uk = PubKey -> [shouldLimit |-> TRUE, key |-> input.PubKey]
         [] OTHER -> [shouldLimit |-> FALSE, key |-> ""]

\* The limiter store a constructor creates with memstore.NewCtx(65536): the
\* variable store below.  A rate limiter holds a reference to its store.
NewStore == "store"

\* Quota.ForKinds(kinds...): the quota, applied to the events of these kinds.
ForKinds(quota, kinds) == [matchKind |-> kinds, quota |-> quota]

\* ByUserAndKind(quotas, uk), by way of newSifterUnit: one rate limiter per
\* entry of quotas, in order, each created over the one store.
ByUserAndKind(quotas, uk) ==
  [type |-> "rateLimitPerKind",
   limiters |-> [i \in 1..Len(quotas) |->
                   [matchKind |-> quotas[i].matchKind,
                    rateLimiter |-> [store |-> NewStore,
                                     quota |-> quotas[i].quota]]],
   uk |-> uk,
   exclude |-> ExcludePubKeys({}),
   reject |-> RejectWithMsg("rate-limited: rate limit exceeded")]

\* deriveLimitKey of ByUserAndKind: (shouldLimit, key).
\* Mutant: the key leaves the kind out.
deriveLimitKeyPerKind_DropsKind(uk, input) ==
  IF ~IsEndUser(input.SourceType) THEN [shouldLimit |-> FALSE, key |-> ""]
  ELSE CASE uk = IPAddr ->
              IF isValidIPAddr(input.SourceInfo)
                THEN [shouldLimit |-> TRUE, key |-> input.SourceInfo]
                ELSE [shouldLimit |-> FALSE, key |-> ""]
         [] uk = PubKey -> [shouldLimit |-> TRUE, key |-> input.PubKey]
         [] OTHER -> [shouldLimit |-> FALSE, key |-> ""]

deriveLimitKeyPerKind(uk, input) ==
  IF ~IsEndUser(input.SourceType) THEN [shouldLimit |-> FALSE, key |-> ""]
  ELSE CASE uk = IPAddr ->
              IF isValidIPAddr(input.SourceInfo)
                THEN [shouldLimit |-> TRUE,
                      key |-> KindKey(input.SourceInfo, input.Kind)]
                ELSE [shouldLimit |-> FALSE, key |-> ""]
         [] uk = PubKey ->
              [shouldLimit |-> TRUE, key |-> KindKey(input.PubKey, input.Kind)]
         [] OTHER -> [shouldLimit |-> FALSE, key |-> ""]

\* selectRateLimiter of ByUserAndKind: the index of the rate limiter it
\* returns, 0 for nil.
\* Mutant: the last matching entry is taken.
selectRateLimiter_LastMatch(limiters, input) ==
  LET M == {i \in 1..Len(limiters) : input.Kind \in limiters[i].matchKind}
  IN  IF M = {} THEN 0 ELSE CHOOSE i \in M : \A j \in M : j <= i

RECURSIVE selectRateLimiterFrom(_, _, _)
selectRateLimiterFrom(limiters, input, i) ==
  IF i > Len(limiters) THEN 0
  ELSE IF input.Kind \in limiters[i].matchKind THEN i
  ELSE selectRateLimiterFrom(limiters, input, i + 1)

selectRateLimiter(limiters, input) == selectRateLimiterFrom(limiters, input, 1)

\* s.deriveLimitKey(input)
sifterLimitKey(s, input) ==
  IF s.type = "rateLimit" THEN deriveLimitKey(s.uk, input)
  ELSE deriveLimitKeyPerKind(s.uk, input)

\* s.selectLimiter(input): the entry whose rate limiter it returns (1 for
\* the one rate limiter of ByUser), 0 for nil.
sifterLimiterIndex(s, input) ==
  IF s.type = "rateLimit" THEN 1 ELSE selectRateLimiter(s.limiters, input)

\* s.selectLimiter(input): the quota of the rate limiter it returns, in a
\* sequence that is empty for nil.
sifterLimiter(s, input) ==
  IF s.type = "rateLimit" THEN <<s.limiter>>
  ELSE LET i == sifterLimiterIndex(s, input)
       IN  IF i = 0 THEN <<>> ELSE <<s.limiters[i].rateLimiter.quota>>

Max(a, b) == IF a >= b THEN a ELSE b

\* Mutants of RateLimitCtx: a denied check advances the TAT too; the burst
\* admits one check fewer; the TAT is not pulled up to the current time.
RateLimitCtx_DeniedAdvancesTAT(quota, st, t, key) ==
  LET tat == IF st[key] = NoTAT THEN t ELSE st[key]
      allowAt == tat - quota.MaxBurst * quota.period
  IN  [limited |-> t < allowAt, err |-> NoErr,
       store |-> [st EXCEPT ![key] = Max(tat, t) + quota.period]]

RateLimitCtx_BurstOffByOne(quota, st, t, key) ==
  LET tat == IF st[key] = NoTAT THEN t ELSE st[key]
      allowAt == tat - (quota.MaxBurst - 1) * quota.period
  IN  IF t >= allowAt
        THEN [limited |-> FALSE, err |-> NoErr,
              store |-> [st EXCEPT ![key] = Max(tat, t) + quota.period]]
        ELSE [limited |-> TRUE, err |-> NoErr, store |-> st]

RateLimitCtx_NoCatchUp(quota, st, t, key) ==
  LET tat == IF st[key] = NoTAT THEN t ELSE st[key]
      allowAt == tat - quota.MaxBurst * quota.period
  IN  IF t >= allowAt
        THEN [limited |-> FALSE, err |-> NoErr,
              store |-> [st EXCEPT ![key] = tat + quota.period]]
        ELSE [limited |-> TRUE, err |-> NoErr, store |-> st]

\* Mutant of RateLimitCtx: an admitted check moves the state of every key.
RateLimitCtx_SharedTAT(quota, st, t, key) ==
  LET tat == IF st[key] = NoTAT THEN t ELSE st[key]
      allowAt == tat - quota.MaxBurst * quota.period
  IN  IF t >= allowAt
        THEN [limited |-> FALSE, err |-> NoErr,
              store |-> [k \in DOMAIN st |-> Max(tat, t) + quota.period]]
        ELSE [limited |-> TRUE, err |-> NoErr, store |-> st]

\* Mutant of RateLimitCtx: one more check than the burst is let through
\* ahead of time.
RateLimitCtx_ExtraBurst(quota, st, t, key) ==
  LET tat == IF st[key] = NoTAT THEN t ELSE st[key]
      allowAt == tat - (quota.MaxBurst + 1) * quota.period
  IN  IF t >= allowAt
        THEN [limited |-> FALSE, err |-> NoErr,
              store |-> [st EXCEPT ![key] = Max(tat, t) + quota.period]]
        ELSE [limited |-> TRUE, err |-> NoErr, store |-> st]

\* rateLimiter.RateLimitCtx(ctx, key, 1) at time t on the store st: the
\* Generic Cell Rate Algorithm.  It hands back (limited, err) and the store.
RateLimitCtx(quota, st, t, key) ==
  LET tat == IF st[key] = NoTAT THEN t ELSE st[key]
      allowAt == tat - quota.MaxBurst * quota.period
  IN  IF t >= allowAt
        THEN [limited |-> FALSE, err |-> NoErr,
              store |-> [st EXCEPT ![key] = Max(tat, t) + quota.period]]
        ELSE [limited |-> TRUE, err |-> NoErr, store |-> st]

\* Mutants of limitDecision: a limited request is accepted; the decisions
\* are swapped.
limitDecision_AlwaysAccepts(s, input, limited) == Accept(input)

limitDecision_Swapped(s, input, limited) ==
  IF limited THEN Accept(input)
  ELSE Return(ApplyRejection(s.reject, input), NoErr)

\* What SifterUnit.Sift returns after a state check that did not fail.
limitDecision(s, input, limited) ==
  IF limited THEN Return(ApplyRejection(s.reject, input), NoErr)
  ELSE Accept(input)

WithStore(r, st) ==
  [res |-> r.res, err |-> r.err, panicked |-> r.panicked, calls |-> <<>>,
   store |-> st]

\* The same, after a state check: the call log holds the call
\* rateLimiter.RateLimitCtx(ctx, key, 1) on the rate limiter of entry i.
WithCheck(r, st, i, key) ==
  [WithStore(r, st) EXCEPT !.calls = <<<<"RateLimitCtx", i, key>>>>]

\* SifterUnit.Sift at time t on the store st: what it returns, and the store.
\* Mutant: the exclusion is looked at only after the state check.
rateLimitSift_ChecksBeforeExclude(s, input, st, t) ==
  LET k == sifterLimitKey(s, input)
      l == sifterLimiter(s, input)
  IN  IF ~k.shouldLimit \/ l = <<>> THEN WithStore(Accept(input), st)
      ELSE
        LET r == RateLimitCtx(l[1], st, t, k.key)
            i == sifterLimiterIndex(s, input)
        IN  IF input.PubKey \in s.exclude.pubkeys
              THEN WithCheck(Accept(input), r.store, i, k.key)
              ELSE WithCheck(limitDecision(s, input, r.limited), r.store,
                             i, k.key)

\* The failures of a state check: the store could not be updated; the
\* deadline of the check passed.
CheckFailures ==
  {"failed to store updated rate limit data", "context deadline exceeded"}

\* rateLimiter.RateLimitCtx(ctx, key, 1) when the store or the deadline fails
\* it with e (NoErr: when nothing fails): a failed check hands back
\* (false, err) and leaves the store as it is.
RateLimitCtxOrFail(quota, st, t, key, e) ==
  IF e = NoErr THEN RateLimitCtx(quota, st, t, key)
  ELSE [limited |-> FALSE, err |-> e, store |-> st]

\* Mutants of checkReturn: the failure of the state check is dropped; it is
\* turned into a rejection.
checkReturn_DropsFailure(s, input, r) == limitDecision(s, input, r.limited)

checkReturn_RejectsOnFailure(s, input, r) ==
  limitDecision(s, input, r.limited \/ r.err # NoErr)

\* What SifterUnit.Sift returns after the state check handed back r.
checkReturn(s, input, r) ==
  IF r.err # NoErr THEN Return(NilResult, r.err)
  ELSE limitDecision(s, input, r.limited)

\* SifterUnit.Sift at time t on the store st, the state check failing with e
\* if it is made (NoErr: not failing).
rateLimitSiftOn(s, input, st, t, e) ==
  IF input.PubKey \in s.exclude.pubkeys THEN WithStore(Accept(input), st)
  ELSE
    LET k == sifterLimitKey(s, input)
    IN  IF ~k.shouldLimit THEN WithStore(Accept(input), st)
        ELSE
          LET l == sifterLimiter(s, input)
          IN  IF l = <<>> THEN WithStore(Accept(input), st)
              ELSE
                LET r == RateLimitCtxOrFail(l[1], st, t, k.key, e)
                    i == sifterLimiterIndex(s, input)
                IN  WithCheck(checkReturn(s, input, r), r.store, i, k.key)

rateLimitSift(s, input, st, t) == rateLimitSiftOn(s, input, st, t, NoErr)

(***************************************************************************)
(* The sifters the model composes.                                         *)
(***************************************************************************)
\* The sifters used as children.
ChildSifters ==
  {acceptAll, rejectAll("reject 1"), rejectAll("reject 2"), shadowRejectAll,
   failingUnit("child failed")}

\* The sifters used as guard conditions.
CondSifters ==
  {acceptAll, rejectAll("cond rejected"), shadowRejectAll,
   failingUnit("cond failed")}

\* A child as handed to Pipeline(...) or OneOf(...): a sifter, plain or
\* wrapped by WithMod and modified.
Guarded(m) ==
  {m} \cup {OnlyIf(m, c) : c \in CondSifters}
      \cup {OnlyIfNot(m, c) : c \in CondSifters}

Children ==
  ChildSifters
    \cup UNION {Guarded(WithMod(s)) \cup Guarded(AcceptEarly(WithMod(s))) :
                  s \in ChildSifters}

ChildLists == UNION {[1..n -> Children] : n \in 0..MaxChildren}

(***************************************************************************)
(* The state: the composed sifter, and the last call of its Sift.  The     *)
(* host composes and configures the sifter, then runs it: the fluent       *)
(* configuration calls come before the first call of Sift.                 *)
(***************************************************************************)
VARIABLES
  sifter,      \* the root sifter: a Pipeline or a OneOf
  lastConfig,  \* history: the most recent constructor or configuration call,
               \* and the number n of configuration calls made
  input,       \* the input of the last call of sifter.Sift
  ret,         \* what the last call of sifter.Sift handed back
  store,       \* the rate limiter's store: the TAT of each key
  now,         \* the clock the rate limiter reads
  log,         \* history: the state checks made so far, in order
  touched,     \* history: for each key, the entries whose rate limiter was
               \* asked about it
  procs,       \* the calls of Sift in flight, when the host runs several
  runner       \* Runner.Run: the lines of standard input left to read, the
               \* lines written to standard output, the number of lines
               \* read, the last line read, and whether Run is running, has
               \* returned or has panicked

vars ==
  <<sifter, lastConfig, input, ret, store, now, log, touched, procs, runner>>

NoTouched == [k \in LimitKeys |-> {}]

\* No call of Sift is in flight.
NoProcs == <<>>

NoInput == Input("", "", 0, "", "")

\* A line of standard input: whether json.Unmarshal parses it, and the Input
\* it is parsed into, whose Event is nil when hasEvent is FALSE.
Line(parses, type, hasEvent, in) ==
  [parses |-> parses, Type |-> type, hasEvent |-> hasEvent, in |-> in]

NoLine == Line(FALSE, "", FALSE, NoInput)

\* Run has not been called.
NoRunner ==
  [stdin |-> <<>>, stdout |-> <<>>, read |-> 0, line |-> NoLine,
   pc |-> "running"]

NoRet ==
  [called |-> FALSE, res |-> NilResult, err |-> NoErr, panicked |-> FALSE,
   calls |-> <<>>]

CustomMsgs == {"no one accepted"}

Init ==
  /\ \/ /\ sifter \in {Pipeline(ss) : ss \in ChildLists}
        /\ lastConfig = [call |-> "Pipeline", msg |-> "", n |-> 0]
     \/ /\ sifter \in {OneOf(ss) : ss \in ChildLists}
        /\ lastConfig = [call |-> "OneOf", msg |-> "", n |-> 0]
  /\ input = NoInput
  /\ ret = NoRet
  /\ store = EmptyStore
  /\ now = 0
  /\ log = <<>>
  /\ touched = NoTouched
  /\ procs = NoProcs
  /\ runner = NoRunner

\* oneOfSifter.ShadowReject()
OneOfShadowReject ==
  /\ sifter.type = "oneOf"
  /\ ~ret.called
  /\ lastConfig.n < MaxConfigCalls
  /\ sifter' = [sifter EXCEPT !.reject = ShadowReject]
  /\ lastConfig' = [call |-> "ShadowReject", msg |-> "", n |-> lastConfig.n + 1]
  /\ UNCHANGED <<input, ret, store, now, log, touched, procs, runner>>

\* oneOfSifter.RejectWithMsg(msg)
OneOfRejectWithMsg ==
  /\ sifter.type = "oneOf"
  /\ ~ret.called
  /\ lastConfig.n < MaxConfigCalls
  /\ \E msg \in CustomMsgs :
       /\ sifter' = [sifter EXCEPT !.reject = RejectWithMsg(msg)]
       /\ lastConfig' =
            [call |-> "RejectWithMsg", msg |-> msg, n |-> lastConfig.n + 1]
  /\ UNCHANGED <<input, ret, store, now, log, touched, procs, runner>>

\* oneOfSifter.RejectWithMsgFromInput(getMsg)
OneOfRejectWithMsgFromInput ==
  /\ sifter.type = "oneOf"
  /\ ~ret.called
  /\ lastConfig.n < MaxConfigCalls
  /\ sifter' = [sifter EXCEPT !.reject = RejectWithMsgFromInput(MsgFromID)]
  /\ lastConfig' = [call |-> "RejectWithMsgFromInput", msg |-> "", n |-> lastConfig.n + 1]
  /\ UNCHANGED <<input, ret, store, now, log, touched, procs, runner>>

\* A call sifter.Sift(in) by the host.
SiftCall ==
  \E in \in Inputs :
    /\ input' = in
    /\ ret' = [called |-> TRUE] @@ Sift(sifter, in)
    /\ UNCHANGED <<sifter, lastConfig, store, now, log, touched, procs, runner>>

Next ==
  \/ OneOfShadowReject
  \/ OneOfRejectWithMsg
  \/ OneOfRejectWithMsgFromInput
  \/ SiftCall

Spec == Init /\ [][Next]_vars

(***************************************************************************)
(* The rate-limiting sifter run by a host: the host hands it one request   *)
(* at a time and writes the decision out before it reads the next one; the *)
(* clock advances in between.  The sifter is configured before it is used. *)
(***************************************************************************)
Quotas == {Quota(p, b) : p \in 1..MaxPeriod, b \in 0..MaxBurst}

\* The requests handed to the rate limiter.
LimiterInputs ==
  {Input("id1", pk, 1, "IP4", info) :
     pk \in PubKeys, info \in ValidIPAddrs \cup {"???"}}
    \cup {Input("id1", pk, 1, "Import", "") : pk \in PubKeys}

InitLimiter ==
  /\ sifter \in {ByUser(q, uk) : q \in Quotas, uk \in {IPAddr, PubKey}}
  /\ lastConfig = [call |-> "ByUser", msg |-> "", n |-> 0]
  /\ input = NoInput
  /\ ret = NoRet
  /\ store = EmptyStore
  /\ now = 0
  /\ log = <<>>
  /\ touched = NoTouched
  /\ procs = NoProcs
  /\ runner = NoRunner

Unused == ~ret.called /\ store = EmptyStore /\ now = 0

\* SifterUnit.Exclude(exclude)
LimiterExclude ==
  /\ Unused
  /\ lastConfig.n < MaxConfigCalls
  /\ sifter' = [sifter EXCEPT !.exclude = ExcludePubKeys({"2"})]
  /\ lastConfig' = [lastConfig EXCEPT !.n = @ + 1]
  /\ UNCHANGED <<input, ret, store, now, log, touched, procs, runner>>

\* SifterUnit.ShadowReject()
LimiterShadowReject ==
  /\ Unused
  /\ lastConfig.n < MaxConfigCalls
  /\ sifter' = [sifter EXCEPT !.reject = ShadowReject]
  /\ lastConfig' = [call |-> "ShadowReject", msg |-> "", n |-> lastConfig.n + 1]
  /\ UNCHANGED <<input, ret, store, now, log, touched, procs, runner>>

\* Time passes.
Tick ==
  /\ now < MaxTime
  /\ now' = now + 1
  /\ UNCHANGED <<sifter, lastConfig, input, ret, store, log, touched, procs,
               runner>>

\* A call sifter.Sift(in) by the host.
LimiterSiftCall ==
  /\ ~ret.called
  /\ \E in \in LimiterInputs :
       LET r == rateLimitSift(sifter, in, store, now)
       IN  /\ input' = in
           /\ ret' = [called |-> TRUE, res |-> r.res, err |-> r.err,
                      panicked |-> r.panicked, calls |-> r.calls]
           /\ store' = r.store
  /\ UNCHANGED <<sifter, lastConfig, now, log, touched, procs, runner>>

\* The host writes the decision out and goes on to read the next request.
LimiterEmit ==
  /\ ret.called
  /\ ret' = NoRet
  /\ UNCHANGED <<sifter, lastConfig, input, store, now, log, touched, procs,
               runner>>

NextLimiter ==
  \/ LimiterExclude
  \/ LimiterShadowReject
  \/ Tick
  \/ LimiterSiftCall
  \/ LimiterEmit

SpecLimiter == InitLimiter /\ [][NextLimiter]_vars

(***************************************************************************)
(* One user sending requests to the rate-limiting sifter, with the history *)
(* of the state checks kept in log.                                        *)
(***************************************************************************)
\* The number of requests the user sends.
MaxChecks == 7

\* The requests of the user.
BurstInputs == {Input("id1", "1", 1, "IP4", "192.168.1.1")}

\* The log after a call of Sift that handed back r: a state check the call
\* made is appended, with the time and whether the sifter accepted.
Logged(r) ==
  IF r.calls = <<>> THEN log
  ELSE Append(log, [t |-> now, key |-> r.calls[1][3],
                    accepted |-> r.err = NoErr /\ r.res.Action = ActionAccept])

InitBurst ==
  /\ sifter \in {ByUser(q, PubKey) : q \in Quotas}
  /\ lastConfig = [call |-> "ByUser", msg |-> "", n |-> 0]
  /\ input = NoInput
  /\ ret = NoRet
  /\ store = EmptyStore
  /\ now = 0
  /\ log = <<>>
  /\ touched = NoTouched
  /\ procs = NoProcs
  /\ runner = NoRunner

\* A call sifter.Sift(in) by the host, logged.
BurstSiftCall ==
  /\ ~ret.called
  /\ Len(log) < MaxChecks
  /\ \E in \in BurstInputs :
       LET r == rateLimitSift(sifter, in, store, now)
       IN  /\ input' = in
           /\ ret' = [called |-> TRUE, res |-> r.res, err |-> r.err,
                      panicked |-> r.panicked, calls |-> r.calls]
           /\ store' = r.store
           /\ log' = Logged(r)
  /\ UNCHANGED <<sifter, lastConfig, now, touched, procs, runner>>

NextBurst ==
  \/ Tick
  \/ BurstSiftCall
  \/ LimiterEmit

SpecBurst == InitBurst /\ [][NextBurst]_vars

(***************************************************************************)
(* Several calls of Sift in flight on one rate-limiting sifter: the host   *)
(* runs one goroutine per request.  Sift itself holds no lock; a state     *)
(* check reads the key's TAT from the store, decides, and writes the new   *)
(* TAT back with a compare-and-swap, trying again when the TAT has changed *)
(* in between.                                                             *)
(***************************************************************************)
\* The number of goroutines.
NumProcs == 3

\* The time up to which the goroutines run.
MaxConcTime == 1

\* The number of failed compare-and-swaps after which a state check fails.
maxCASAttempts == 10

Procs == 1..NumProcs

\* The quotas of the sifter the goroutines share: without and with a burst.
ConcQuotas == {Quota(1, 0), Quota(MaxPeriod, MaxBurst)}

ConcInputs == {Input("id1", pk, 1, "IP4", "192.168.1.1") : pk \in PubKeys}

IdleProc ==
  [pc |-> "idle", in |-> NoInput, key |-> "", quota |-> <<>>, tatVal |-> NoTAT,
   t |-> 0, attempts |-> 0, res |-> NilResult, err |-> NoErr]

\* Mutant of storeCAS: the new value is written whatever the store holds.
storeCAS_BlindSet(st, key, old, new) ==
  [updated |-> TRUE, store |-> [st EXCEPT ![key] = new]]

\* store.SetIfNotExistsWithTTL(key, new) when old is NoTAT, and
\* store.CompareAndSwapWithTTL(key, old, new) otherwise: (updated, store).
storeCAS(st, key, old, new) ==
  IF st[key] = old
    THEN [updated |-> TRUE, store |-> [st EXCEPT ![key] = new]]
    ELSE [updated |-> FALSE, store |-> st]

InitConc ==
  /\ sifter \in {ByUser(q, PubKey) : q \in ConcQuotas}
  /\ lastConfig = [call |-> "ByUser", msg |-> "", n |-> 0]
  /\ input = NoInput
  /\ ret = NoRet
  /\ store = EmptyStore
  /\ now = 0
  /\ log = <<>>
  /\ touched = NoTouched
  /\ procs = [p \in Procs |-> IdleProc]
  /\ runner = NoRunner

\* Goroutine p calls sifter.Sift(in) and runs it up to the state check.
ConcCall ==
  /\ \E p \in Procs, in \in ConcInputs :
       /\ procs[p].pc = "idle"
       /\ LET k == sifterLimitKey(sifter, in)
              l == sifterLimiter(sifter, in)
          IN  procs' =
                [procs EXCEPT ![p] =
                   IF \/ in.PubKey \in sifter.exclude.pubkeys
                      \/ ~k.shouldLimit
                      \/ l = <<>>
                     THEN [@ EXCEPT !.pc = "done", !.in = in,
                                    !.res = Accept(in).res]
                     ELSE [@ EXCEPT !.pc = "get", !.in = in, !.key = k.key,
                                    !.quota = l]]
  /\ UNCHANGED <<sifter, lastConfig, input, ret, store, now, log, touched,
               runner>>

\* The state check of goroutine p reads the TAT of its key and the time.
ConcGet ==
  /\ \E p \in Procs :
       /\ procs[p].pc = "get"
       /\ procs' = [procs EXCEPT ![p].pc = "cas",
                                 ![p].tatVal = store[procs[p].key],
                                 ![p].t = now]
  /\ UNCHANGED <<sifter, lastConfig, input, ret, store, now, log, touched,
               runner>>

\* The state check of goroutine p decides on what it read; when it admits,
\* it writes the new TAT if the key still holds the TAT it read, and reads
\* again if not.  Sift then returns the decision.
ConcCAS ==
  /\ \E p \in Procs :
       /\ procs[p].pc = "cas"
       /\ LET me == procs[p]
              r == RateLimitCtx(me.quota[1],
                                [store EXCEPT ![me.key] = me.tatVal],
                                me.t, me.key)
              c == storeCAS(store, me.key, me.tatVal, r.store[me.key])
          IN  IF r.limited
                THEN /\ procs' =
                          [procs EXCEPT ![p].pc = "done",
                             ![p].res = limitDecision(sifter, me.in, TRUE).res]
                     /\ store' = store
              ELSE IF c.updated
                THEN /\ procs' =
                          [procs EXCEPT ![p].pc = "done",
                             ![p].res = limitDecision(sifter, me.in, FALSE).res]
                     /\ store' = c.store
              ELSE IF me.attempts + 1 > maxCASAttempts
                THEN /\ procs' =
                          [procs EXCEPT ![p].pc = "done",
                             ![p].attempts = me.attempts + 1,
                             ![p].err = "failed to store updated rate limit data"]
                     /\ store' = store
              ELSE /\ procs' = [procs EXCEPT ![p].pc = "get",
                                             ![p].attempts = me.attempts + 1]
                   /\ store' = store
  /\ UNCHANGED <<sifter, lastConfig, input, ret, now, log, touched, runner>>

\* Time passes while the goroutines run.
ConcTick ==
  /\ now < MaxConcTime
  /\ Tick

NextConc ==
  \/ ConcCall
  \/ ConcGet
  \/ ConcCAS
  \/ ConcTick

SpecConc == InitConc /\ [][NextConc]_vars

(***************************************************************************)
(* The rate-limiting sifters with a quota per event kind (ByUserAndKind),  *)
(* next to ByUser, run by a host one request at a time.                    *)
(***************************************************************************)
\* The lists of quotas handed to ByUserAndKind: one quota per kind; one
\* quota for both kinds; two quotas that both match kind 1; none.
KindQuotaLists ==
  {<<ForKinds(Quota(MaxPeriod, 0), {1}), ForKinds(Quota(1, 0), {7})>>,
   <<ForKinds(Quota(1, 0), {1, 7})>>,
   <<ForKinds(Quota(MaxPeriod, MaxBurst), {1}), ForKinds(Quota(1, 0), {1, 7})>>,
   <<>>}

\* The requests: one user sending events of each kind, and the same events
\* imported or relayed.
PerKindInputs ==
  {Input("id1", "1", k, "IP4", "192.168.1.1") : k \in Kinds}
    \cup {Input("id1", "1", 1, st, "") : st \in {"Import", "Stream", "Sync"}}
    \cup {Input("id1", "1", 1, "IP4", UnknownSource)}

InitPerKind ==
  /\ \/ sifter \in {ByUserAndKind(qs, uk) :
                       qs \in KindQuotaLists, uk \in {IPAddr, PubKey}}
     \/ sifter \in {ByUser(Quota(1, 0), uk) : uk \in {IPAddr, PubKey}}
  /\ lastConfig = [call |-> "ByUserAndKind", msg |-> "", n |-> 0]
  /\ input = NoInput
  /\ ret = NoRet
  /\ store = EmptyStore
  /\ now = 0
  /\ log = <<>>
  /\ touched = NoTouched
  /\ procs = NoProcs
  /\ runner = NoRunner

\* The entries asked about each key, after a call of Sift that handed back r.
Touched(r) ==
  IF r.calls = <<>> THEN touched
  ELSE [touched EXCEPT ![r.calls[1][3]] = @ \cup {r.calls[1][2]}]

\* A call sifter.Sift(in) by the host.
PerKindSiftCall ==
  /\ ~ret.called
  /\ \E in \in PerKindInputs :
       LET r == rateLimitSift(sifter, in, store, now)
       IN  /\ input' = in
           /\ ret' = [called |-> TRUE, res |-> r.res, err |-> r.err,
                      panicked |-> r.panicked, calls |-> r.calls]
           /\ store' = r.store
           /\ touched' = Touched(r)
  /\ UNCHANGED <<sifter, lastConfig, now, log, procs, runner>>

NextPerKind ==
  \/ Tick
  \/ PerKindSiftCall
  \/ LimiterEmit

SpecPerKind == InitPerKind /\ [][NextPerKind]_vars

(***************************************************************************)
(* The rate-limiting sifters on a store whose state checks can fail, with  *)
(* the history of the state checks kept in log.                            *)
(***************************************************************************)
\* The number of state checks logged.
MaxFaultChecks == 2

\* The requests: two users, and an imported event.
FaultInputs ==
  {Input("id1", pk, 1, "IP4", "192.168.1.1") : pk \in PubKeys}
    \cup {Input("id1", "1", 1, "Import", "")}

\* The sifters: ByUser and ByUserAndKind as constructed, and after
\* ShadowReject() and Exclude(exclude).
FaultSifters ==
  LET B == {ByUser(Quota(1, 0), uk) : uk \in {IPAddr, PubKey}}
             \cup {ByUserAndKind(<<ForKinds(Quota(1, 0), {1, 7})>>, PubKey)}
  IN  B \cup {[s EXCEPT !.reject = ShadowReject] : s \in B}
        \cup {[s EXCEPT !.exclude = ExcludePubKeys({"2"})] : s \in B}

InitFault ==
  /\ sifter \in FaultSifters
  /\ lastConfig = [call |-> "ByUser", msg |-> "", n |-> 0]
  /\ input = NoInput
  /\ ret = NoRet
  /\ store = EmptyStore
  /\ now = 0
  /\ log = <<>>
  /\ touched = NoTouched
  /\ procs = NoProcs
  /\ runner = NoRunner

\* The log after a call of Sift that handed back r: a state check the call
\* made is appended, with the time and the failure of the check.
FaultLogged(r, e) ==
  IF r.calls = <<>> THEN log
  ELSE Append(log, [t |-> now, key |-> r.calls[1][3], failure |-> e])

\* A call sifter.Sift(in) by the host; its state check, if made, fails with
\* e or does not fail.
FaultSiftCall ==
  /\ ~ret.called
  /\ Len(log) < MaxFaultChecks
  /\ \E in \in FaultInputs, e \in CheckFailures \cup {NoErr} :
       LET r == rateLimitSiftOn(sifter, in, store, now, e)
       IN  /\ input' = in
           /\ ret' = [called |-> TRUE, res |-> r.res, err |-> r.err,
                      panicked |-> r.panicked, calls |-> r.calls]
           /\ store' = r.store
           /\ log' = FaultLogged(r, e)
  /\ UNCHANGED <<sifter, lastConfig, now, touched, procs, runner>>

NextFault ==
  \/ Tick
  \/ FaultSiftCall
  \/ LimiterEmit

SpecFault == InitFault /\ [][NextFault]_vars

(***************************************************************************)
(* A built-in leaf unit run by a host one request at a time, with the last *)
(* call of shouldAccept kept in log.                                       *)
(***************************************************************************)
\* The values of Mode a unit is made with: the zero value, Allow and Deny.
Modes == {0, Allow, Deny}

\* The matchers: one that matches the first address only, and one that
\* also fails on the second.
UnitMatchers ==
  {AddrMatcher({"192.168.1.1"}, {}),
   AddrMatcher({"192.168.1.1"}, {"192.168.1.2"})}

UnitSifters ==
  {SourceIPMatcher(m, mode, mu) :
     m \in UnitMatchers, mode \in Modes, mu \in Modes}
    \cup {AuthorMatcher(FallibleMatcher({"pubkey"}, {"pubkey2"}), mode) :
            mode \in Modes}
    \cup {KindMatcherFallible(FallibleMatcher({1}, {7}), mode) :
            mode \in Modes}
    \cup {sourceIPSifter({"192.168.1.1"}, mode, mu) :
            mode \in Modes, mu \in Modes}

\* The requests: from the two addresses, from an unknown source, imported.
UnitInputs ==
  {Input(id, "pubkey", 1, "IP4", a) :
     id \in EventIDs, a \in ValidIPAddrs \cup {UnknownSource}}
    \cup {Input(id, "pubkey", 1, "Import", "") : id \in EventIDs}
    \cup {Input(id, "pubkey2", 7, "IP4", "192.168.1.1") : id \in EventIDs}

InitUnit ==
  /\ sifter \in UnitSifters
  /\ lastConfig = [call |-> "SourceIPMatcher", msg |-> "", n |-> 0]
  /\ input = NoInput
  /\ ret = NoRet
  /\ store = EmptyStore
  /\ now = 0
  /\ log = <<>>
  /\ touched = NoTouched
  /\ procs = NoProcs
  /\ runner = NoRunner

\* sifterUnit.ShadowReject()
UnitShadowReject ==
  /\ input = NoInput
  /\ lastConfig.n < MaxConfigCalls
  /\ sifter' = [sifter EXCEPT !.reject = ShadowReject]
  /\ lastConfig' = [call |-> "ShadowReject", msg |-> "", n |-> lastConfig.n + 1]
  /\ UNCHANGED <<input, ret, store, now, log, touched, procs, runner>>

\* sifterUnit.RejectWithMsg(msg)
UnitRejectWithMsg ==
  /\ input = NoInput
  /\ lastConfig.n < MaxConfigCalls
  /\ \E msg \in CustomMsgs :
       /\ sifter' = [sifter EXCEPT !.reject = RejectWithMsg(msg)]
       /\ lastConfig' = [call |-> "RejectWithMsg", msg |-> msg,
                         n |-> lastConfig.n + 1]
  /\ UNCHANGED <<input, ret, store, now, log, touched, procs, runner>>

\* sifterUnit.RejectWithMsgFromInput(getMsg)
UnitRejectWithMsgFromInput ==
  /\ input = NoInput
  /\ lastConfig.n < MaxConfigCalls
  /\ sifter' = [sifter EXCEPT !.reject = RejectWithMsgFromInput(MsgFromID)]
  /\ lastConfig' = [call |-> "RejectWithMsgFromInput", msg |-> "",
                    n |-> lastConfig.n + 1]
  /\ UNCHANGED <<input, ret, store, now, log, touched, procs, runner>>

\* The log after a call of sifterUnit.Sift on in: the call of shouldAccept
\* it made, none when the matcher failed.
UnitLogged(s, in) ==
  IF s.type # "sifterUnit" THEN <<>>
  ELSE
  LET m == sifterUnitMatch(s.match, in)
  IN  IF m.err # NoErr THEN <<>>
      ELSE <<[matchRes |-> m.res, mode |-> s.mode,
              accept |-> shouldAccept(m.res, s.mode)]>>

\* A call sifter.Sift(in) by the host.
UnitSiftCall ==
  /\ ~ret.called
  /\ \E in \in UnitInputs :
       LET r == Sift(sifter, in)
       IN  /\ input' = in
           /\ ret' = [called |-> TRUE, res |-> r.res, err |-> r.err,
                      panicked |-> r.panicked, calls |-> r.calls]
           /\ log' = UnitLogged(sifter, in)
  /\ UNCHANGED <<sifter, lastConfig, store, now, touched, procs, runner>>

NextUnit ==
  \/ UnitShadowReject
  \/ UnitRejectWithMsg
  \/ UnitRejectWithMsgFromInput
  \/ UnitSiftCall
  \/ LimiterEmit

SpecUnit == InitUnit /\ [][NextUnit]_vars

(***************************************************************************)
(* The host loop Runner.Run: it reads the lines of standard input one at a *)
(* time, has the configured sifter process each request and writes one     *)
(* line to standard output.                                                *)
(***************************************************************************)
\* The number of lines on standard input.
MaxLines == 2

\* Runner.sifter is nil.
NilSifter == [type |-> "nil"]

\* The leaves of the trees the runner is made with.
RunnerLeaves ==
  {acceptAll, rejectAll("blocked"), shadowRejectAll,
   failingUnit("child failed"),
   SourceIPMatcher(AddrMatcher({"192.168.1.1"}, {"192.168.1.2"}), Deny, Deny)}

\* The Pipelines and OneOfs nested in them: without children, with children
\* that are all skipped, accepting, rejecting, failing.
InnerTrees ==
  {Pipeline(<<>>),
   Pipeline(<<OnlyIf(WithMod(acceptAll), rejectAll("blocked"))>>),
   Pipeline(<<acceptAll>>),
   Pipeline(<<acceptAll, rejectAll("blocked")>>),
   OneOf(<<>>),
   OneOf(<<shadowRejectAll, failingUnit("child failed")>>)}

\* A sifter as a child: plain, with the accept-early flag, as the guard of
\* a child, as the guard that must not accept.
AsChild(c) ==
  {c, AcceptEarly(WithMod(c)), OnlyIf(WithMod(rejectAll("blocked")), c),
   OnlyIfNot(WithMod(acceptAll), c)}

RunnerChildren == UNION {AsChild(c) : c \in RunnerLeaves \cup InnerTrees}

RunnerChildLists ==
  {<<>>} \cup {<<a>> : a \in RunnerChildren}
         \cup {<<a, b>> : a \in RunnerChildren,
                          b \in {acceptAll, rejectAll("blocked")}}

RunnerTrees ==
  {Pipeline(ss) : ss \in RunnerChildLists}
    \cup {OneOf(ss) : ss \in RunnerChildLists}

\* The rate-limiting sifters the runner is made with.
RunnerLimiters ==
  {ByUser(Quota(1, 0), IPAddr), ByUser(Quota(1, 0), PubKey),
   ByUserAndKind(<<ForKinds(Quota(1, 0), {1, 7})>>, PubKey)}

\* Modifier wrappers as the root: plain, with a label and the accept-early
\* flag, with guards that fail, reject and accept, and around a wrapper.
RunnerWrappers ==
  UNION {{WithMod(c),
          Label(AcceptEarly(WithMod(c)), "custom"),
          OnlyIf(WithMod(c), failingUnit("cond failed")),
          OnlyIf(WithMod(c), rejectAll("blocked")),
          OnlyIfNot(AcceptEarly(WithMod(c)), acceptAll),
          WithMod(OnlyIf(WithMod(c), rejectAll("blocked")))} :
           c \in RunnerLeaves \cup {OneOf(<<>>), Pipeline(<<acceptAll>>)}}

RunnerSifters ==
  {NilSifter} \cup RunnerLeaves \cup RunnerTrees \cup RunnerWrappers
    \cup RunnerLimiters

\* The lines strfry may write: requests of two users; a line that is no
\* JSON; a request of another type; requests without an event.
RequestLines ==
  {Line(TRUE, "new", TRUE, Input("id1", "1", 1, "IP4", "192.168.1.1")),
   Line(TRUE, "new", TRUE, Input("id2", "2", 1, "IP4", "192.168.1.2")),
   Line(FALSE, "", FALSE, NoInput),
   Line(TRUE, "old", TRUE, Input("id1", "1", 1, "IP4", "192.168.1.1")),
   Line(TRUE, "new", FALSE, Input("", "", 0, "IP4", "192.168.1.1")),
   Line(TRUE, "new", FALSE, Input("", "", 0, "IP4", "192.168.1.2")),
   Line(TRUE, "old", FALSE, Input("", "", 0, "IP4", "192.168.1.1"))}

LineLists == UNION {[1..n -> RequestLines] : n \in 0..MaxLines}

IsLimiter(s) == s.type \in {"rateLimit", "rateLimitPerKind"}

RECURSIVE SiftNilEvent(_, _)

\* The first step of a Pipeline or OneOf with children on an input whose
\* Event is nil: the guard of the first child, or the child itself.  What is
\* evaluated fails, or panics, or hands back a decision, which it made from
\* input.Event.ID (a panic), or hands back nil, which the combinator
\* dereferences (a panic).
firstStepNilEvent(s, in) ==
  LET child == s.children[1]
      guarded == child.onlyIfCond # <<>>
      r == IF guarded THEN SiftNilEvent(child.onlyIfCond[1].cond, in)
           ELSE SiftNilEvent(child, in)
      calls == IF guarded THEN <<<<"cond", 1>>>> ELSE <<<<"sift", 1>>>>
  IN  IF ~r.panicked /\ r.err # NoErr
        THEN WithCalls(Return(NilResult, r.err), calls)
        ELSE WithCalls(Panic, calls)

\* s.Sift(input) on an input whose Event is nil: input.Accept(),
\* input.Reject(msg), input.ShadowReject() and the rejection strategies read
\* input.Event.ID and panic.
SiftNilEvent(s, in) ==
  CASE s.type \in {"acceptAll", "rejectAll", "shadowRejectAll"} ->
         WithCalls(Panic, <<>>)
    [] s.type = "failingUnit" -> WithCalls(Return(NilResult, s.err), <<>>)
    [] s.type = "sifterUnit" ->
         IF s.match.fn # "SourceIPMatcher" THEN WithCalls(Panic, <<>>)
         ELSE
           LET m == matchInput(s.match, in)
           IN  IF m.err # NoErr
                 THEN WithCalls(Return(NilResult, m.err), <<>>)
                 ELSE WithCalls(Panic, <<>>)
    [] s.type = "modded" -> SiftNilEvent(s.s, in)
    [] s.type = "pipeline" ->
         IF Len(s.children) = 0
           THEN WithCalls(pipelineFallThrough(NilResult, in), <<>>)
           ELSE firstStepNilEvent(s, in)
    [] s.type = "oneOf" ->
         IF Len(s.children) = 0 THEN WithCalls(Panic, <<>>)
         ELSE firstStepNilEvent(s, in)

\* SifterUnit.Sift of package ratelimit on an input whose Event is nil: only
\* ByUser keyed by the address gets to the state check without reading
\* input.Event, and panics in input.Accept() or s.reject(input) after it
\* unless the check fails.
rateLimitSiftNilEvent(s, in, st, t, e) ==
  IF /\ s.type = "rateLimit"
     /\ s.exclude.pubkeys = {}
     /\ s.uk = IPAddr
     /\ IsEndUser(in.SourceType)
     /\ isValidIPAddr(in.SourceInfo)
    THEN LET r == RateLimitCtxOrFail(s.limiter, st, t, in.SourceInfo, e)
         IN  IF r.err # NoErr
               THEN WithCheck(Return(NilResult, r.err), r.store, 1,
                              in.SourceInfo)
               ELSE WithCheck(Panic, r.store, 1, in.SourceInfo)
    ELSE WithStore(Panic, st)

\* sifter.Sift(input) as Run calls it, at time t on the store st; a state
\* check, if made, fails with e (NoErr: does not fail).
runnerSift(s, line, st, t, e) ==
  IF IsLimiter(s)
    THEN IF line.hasEvent THEN rateLimitSiftOn(s, line.in, st, t, e)
         ELSE rateLimitSiftNilEvent(s, line.in, st, t, e)
    ELSE LET r == IF line.hasEvent THEN Sift(s, line.in)
                  ELSE SiftNilEvent(s, line.in)
         IN  [WithStore(r, st) EXCEPT !.calls = r.calls]

\* The closure processInput of Run; sifted tells whether the sifter was
\* called.
processInput(s, line, st, t, e) ==
  IF line.Type # "new"
    THEN [sifted |-> FALSE]
           @@ WithStore(Return(NilResult, "unexpected input type"), st)
    ELSE [sifted |-> TRUE]
           @@ runnerSift(IF s = NilSifter THEN acceptAll ELSE s,
                         line, st, t, e)

\* The line Run writes for a line that does not parse: Result{ID: ""}.
MalformedResult == [ID |-> "", Action |-> "", Msg |-> ""]

SifterFailedMsg == "error: event sifter failed to process input"

\* Mutants of runnerResult: a failure of the sifter is written as an Accept;
\* nothing is written for it.
runnerResult_AcceptsOnFailure(line, p) ==
  IF p.panicked THEN Panic
  ELSE IF p.err # NoErr
    THEN IF line.hasEvent THEN Accept(line.in) ELSE Panic
  ELSE Return(p.res, NoErr)

\* What Run encodes after processInput handed back p: the result, or on a
\* failure input.Reject(msg), which panics when input.Event is nil.
runnerResult(line, p) ==
  IF p.panicked THEN Panic
  ELSE IF p.err # NoErr
    THEN IF line.hasEvent THEN Reject(line.in, SifterFailedMsg) ELSE Panic
  ELSE Return(p.res, NoErr)

InitRunner ==
  /\ sifter \in RunnerSifters
  /\ lastConfig = [call |-> "New", msg |-> "", n |-> 0]
  /\ input = NoInput
  /\ ret = NoRet
  /\ store = EmptyStore
  /\ now = 0
  /\ log = <<>>
  /\ touched = NoTouched
  /\ procs = NoProcs
  /\ runner \in {[NoRunner EXCEPT !.stdin = ls] : ls \in LineLists}

\* One iteration of the loop of Run: scanner.Scan() reads a line; a line
\* that does not parse is answered with a malformed result; any other is
\* processed and its result, or a Reject if processing failed, is written.
\* A panic ends the process with nothing written.
RunnerStep ==
  /\ runner.pc = "running"
  /\ runner.stdin # <<>>
  /\ LET line == Head(runner.stdin)
         read == [runner EXCEPT !.stdin = Tail(@), !.read = @ + 1,
                                !.line = line]
     IN  IF ~line.parses
           THEN /\ runner' =
                     [read EXCEPT !.stdout =
                        Append(@, [req |-> read.read, out |-> MalformedResult])]
                /\ input' = NoInput
                /\ ret' = NoRet
                /\ store' = store
           ELSE \E e \in CheckFailures \cup {NoErr} :
                  LET p == processInput(sifter, line, store, now, e)
                      w == runnerResult(line, p)
                  IN  /\ input' = line.in
                      /\ ret' = IF p.sifted
                                  THEN [called |-> TRUE, res |-> p.res,
                                        err |-> p.err, panicked |-> p.panicked,
                                        calls |-> p.calls]
                                  ELSE NoRet
                      /\ store' = p.store
                      /\ runner' =
                           IF w.panicked THEN [read EXCEPT !.pc = "panicked"]
                           ELSE [read EXCEPT !.stdout =
                                   Append(@, [req |-> read.read, out |-> w.res])]
  /\ UNCHANGED <<sifter, lastConfig, now, log, touched, procs>>

\* scanner.Scan() finds the end of standard input: Run returns.
RunnerExit ==
  /\ runner.pc = "running"
  /\ runner.stdin = <<>>
  /\ runner' = [runner EXCEPT !.pc = "exited"]
  /\ UNCHANGED <<sifter, lastConfig, input, ret, store, now, log, touched,
                 procs>>

NextRunner ==
  \/ RunnerStep
  \/ RunnerExit

SpecRunner == InitRunner /\ [][NextRunner]_vars

(***************************************************************************)
(* What the children of the root sifter decide on the request of the last  *)
(* call, taken one by one: the terms the properties below are stated in.   *)
(***************************************************************************)
NumChildren == Len(sifter.children)

Called == ret.called

IsPipeline == sifter.type = "pipeline"

IsOneOf == sifter.type = "oneOf"

\* Child i was wrapped with OnlyIf(cond) / OnlyIfNot(cond).
HasGuard(i) == sifter.children[i].onlyIfCond # <<>>

GuardCond(i) == sifter.children[i].onlyIfCond[1].cond

IsOnlyIf(i) ==
  /\ HasGuard(i)
  /\ sifter.children[i].onlyIfCond
       = OnlyIf(WithMod(acceptAll), GuardCond(i)).onlyIfCond

IsOnlyIfNot(i) ==
  /\ HasGuard(i)
  /\ sifter.children[i].onlyIfCond
       = OnlyIfNot(WithMod(acceptAll), GuardCond(i)).onlyIfCond

\* What the guard condition of child i, and the sifter child i wraps, hand
\* back on the request.
CondOut(i) == Sift(GuardCond(i), input)

ChildOut(i) == Sift(sifter.children[i].s, input)

GuardFails(i) == HasGuard(i) /\ CondOut(i).err # NoErr

ChildFails(i) == ChildOut(i).err # NoErr

ChildAccepts(i) ==
  ChildOut(i).err = NoErr /\ ChildOut(i).res.Action = ActionAccept

ChildRejects(i) ==
  /\ ChildOut(i).err = NoErr
  /\ ChildOut(i).res.Action \in {ActionReject, ActionShadowReject}

\* Child i is skipped by its guard: the guard's required polarity is not met.
SkippedByGuard(i) ==
  /\ HasGuard(i)
  /\ ~GuardFails(i)
  /\ \/ IsOnlyIf(i) /\ CondOut(i).res.Action # ActionAccept
     \/ IsOnlyIfNot(i) /\ CondOut(i).res.Action = ActionAccept

\* No child and no guard fails on the request.
NoFailure ==
  \A i \in 1..NumChildren : ~GuardFails(i) /\ ~ChildFails(i)

\* The last call evaluated the guard of child i / child i itself.
CondEvaluated(i) == \E n \in 1..Len(ret.calls) : ret.calls[n] = <<"cond", i>>

ChildEvaluated(i) == \E n \in 1..Len(ret.calls) : ret.calls[n] = <<"sift", i>>

\* The last call evaluated no child and no guard after child i.
NothingEvaluatedAfter(i) ==
  \A n \in 1..Len(ret.calls) : ret.calls[n][2] <= i

ReturnsDecision(res) == ~ret.panicked /\ ret.err = NoErr /\ ret.res = res

ReturnsAccept ==
  ~ret.panicked /\ ret.err = NoErr /\ ret.res.Action = ActionAccept

ReturnsFailure(err) == ~ret.panicked /\ ret.err = err /\ ret.res = NilResult

(***************************************************************************)
(* C1.  Pipeline accepts iff every child not skipped by its guard accepts. *)
(***************************************************************************)
\* C1 as stated: on a request on which no child and no guard fails,
\* Pipeline.Sift returns an Accept decision iff every child that is not
\* skipped by its guard accepts the request.
C1_AcceptIffAllNonSkippedAccept ==
  (Called /\ IsPipeline /\ NoFailure) =>
    (ReturnsAccept <=>
       \A i \in 1..NumChildren : ~SkippedByGuard(i) => ChildAccepts(i))

\* The first child that is not skipped, carries the accept-early flag and
\* accepts; NumChildren when there is none.
EarlyAcceptAt ==
  LET E == {i \in 1..NumChildren :
              /\ ~SkippedByGuard(i)
              /\ sifter.children[i].acceptEarly
              /\ ChildAccepts(i)}
  IN  IF E = {} THEN NumChildren
      ELSE CHOOSE i \in E : \A j \in E : i <= j

\* C1 as amended: on a request on which no child and no guard fails,
\* Pipeline.Sift returns an Accept decision iff at least one child is not
\* skipped and every non-skipped child up to and including the first
\* accept-early child that accepts (every non-skipped child, when there is
\* none) accepts the request.
C1_AcceptIffAllEvaluatedAccept ==
  (Called /\ IsPipeline /\ NoFailure) =>
    (ReturnsAccept <=>
       /\ \E i \in 1..EarlyAcceptAt : ~SkippedByGuard(i)
       /\ \A i \in 1..EarlyAcceptAt : ~SkippedByGuard(i) => ChildAccepts(i))

\* An accept-early child accepted ahead of a rejecting child, and the
\* Pipeline accepted.
C1_Witness ==
  /\ Called /\ IsPipeline /\ NoFailure /\ NumChildren = 2
  /\ EarlyAcceptAt = 1
  /\ ChildRejects(2) /\ ~SkippedByGuard(2)
  /\ ReturnsAccept

(***************************************************************************)
(* C2.  Pipeline is fail-fast.                                             *)
(***************************************************************************)
\* C2: when Pipeline.Sift evaluates a child whose decision is Reject or
\* ShadowReject, it returns exactly that decision (action and message) and
\* evaluates no later child and no later guard condition.
C2_FailFast ==
  (Called /\ IsPipeline) =>
    \A i \in 1..NumChildren :
      (ChildEvaluated(i) /\ ChildRejects(i)) =>
        /\ ReturnsDecision(ChildOut(i).res)
        /\ NothingEvaluatedAfter(i)

\* The first child rejected ahead of a guarded second child.
C2_Witness ==
  /\ Called /\ IsPipeline /\ NumChildren = 2
  /\ ChildEvaluated(1) /\ ChildRejects(1)
  /\ HasGuard(2)
  /\ ret.res.Msg = "reject 1"

(***************************************************************************)
(* C3.  Accept-early.                                                      *)
(***************************************************************************)
\* C3: when Pipeline.Sift evaluates a child that carries the accept-early
\* flag and the child accepts, it returns that child's Accept decision and
\* evaluates no later child and no later guard, even if a later child would
\* reject.
C3_AcceptEarly ==
  (Called /\ IsPipeline) =>
    \A i \in 1..NumChildren :
      (ChildEvaluated(i) /\ sifter.children[i].acceptEarly /\ ChildAccepts(i))
        => /\ ReturnsDecision(ChildOut(i).res)
           /\ NothingEvaluatedAfter(i)

\* The accept-early first child accepted ahead of a rejecting second child.
C3_Witness ==
  /\ Called /\ IsPipeline /\ NumChildren = 2
  /\ ChildEvaluated(1) /\ sifter.children[1].acceptEarly /\ ChildAccepts(1)
  /\ ~HasGuard(2) /\ ChildRejects(2)

(***************************************************************************)
(* C4.  A Pipeline that evaluates no child accepts.                        *)
(***************************************************************************)
\* C4: a Pipeline in which no child is effectively evaluated (zero children,
\* or every child skipped by its guard) returns an Accept decision, as does
\* a Pipeline whose last children are skipped after earlier ones accepted.
C4_AcceptsByDefault ==
  (Called /\ IsPipeline /\ NoFailure) =>
    /\ (\A i \in 1..NumChildren : SkippedByGuard(i)) => ReturnsAccept
    /\ \A k \in 1..NumChildren :
         (/\ \A i \in 1..k : ~SkippedByGuard(i) /\ ChildAccepts(i)
          /\ \A i \in (k + 1)..NumChildren : SkippedByGuard(i))
           => ReturnsAccept

(***************************************************************************)
(* C5.  Guard polarity.                                                    *)
(***************************************************************************)
\* The root sifter with the guard of child i turned into its opposite
\* (OnlyIf(cond) into OnlyIfNot(cond) and back).
Opposite(i) ==
  [sifter EXCEPT !.children[i] =
     IF IsOnlyIf(i) THEN OnlyIfNot(@, GuardCond(i)) ELSE OnlyIf(@, GuardCond(i))]

HasCall(calls, c) == \E n \in 1..Len(calls) : calls[n] = c

\* The entry of the call log that follows the guard of child i.
AfterCond(i) ==
  LET n == CHOOSE n \in 1..Len(ret.calls) : ret.calls[n] = <<"cond", i>>
  IN  IF n < Len(ret.calls) THEN ret.calls[n + 1] ELSE <<"end", 0>>

\* C5: in Pipeline and OneOf, when the guard of a child is evaluated (and
\* does not fail), the child of OnlyIf(cond) is evaluated iff cond's decision
\* is Accept and the child of OnlyIfNot(cond) iff it is not Accept; exactly
\* one of the two evaluates the child; a child whose guard is not met is
\* skipped: the combinator goes on to the next child, and the rejection of
\* the guard condition (whose message no child uses) is not the result.
C5_GuardPolarity ==
  Called =>
    \A i \in 1..NumChildren :
      (CondEvaluated(i) /\ ~GuardFails(i)) =>
        /\ IsOnlyIf(i) =>
             (ChildEvaluated(i) <=> CondOut(i).res.Action = ActionAccept)
        /\ IsOnlyIfNot(i) =>
             (ChildEvaluated(i) <=> CondOut(i).res.Action # ActionAccept)
        /\ ChildEvaluated(i)
             <=> ~HasCall(Sift(Opposite(i), input).calls, <<"sift", i>>)
        /\ ~ChildEvaluated(i) =>
             /\ AfterCond(i) \in
                  IF i < NumChildren
                    THEN IF HasGuard(i + 1) THEN {<<"cond", i + 1>>}
                         ELSE {<<"sift", i + 1>>}
                    ELSE {<<"end", 0>>}
             /\ CondOut(i).res.Action = ActionReject
                  => ret.res # CondOut(i).res

\* A child of OnlyIfNot whose condition shadow-rejected was evaluated, and a
\* child of OnlyIf whose condition rejected was skipped.
C5_Witness ==
  /\ Called /\ NumChildren = 2
  /\ IsOnlyIf(1) /\ CondEvaluated(1) /\ ~ChildEvaluated(1)
  /\ CondOut(1).err = NoErr /\ CondOut(1).res.Action = ActionReject
  /\ IsOnlyIfNot(2) /\ CondEvaluated(2) /\ ChildEvaluated(2)
  /\ CondOut(2).err = NoErr /\ CondOut(2).res.Action = ActionShadowReject

(***************************************************************************)
(* C6.  OneOf accepts with the first accepting child.                      *)
(***************************************************************************)
\* No child and no guard that the last call evaluated failed.
NoEvaluatedFailure ==
  \A i \in 1..NumChildren :
    /\ CondEvaluated(i) => ~GuardFails(i)
    /\ ChildEvaluated(i) => ~ChildFails(i)

\* The children that are not skipped by their guard and accept.
AcceptingChildren ==
  {i \in 1..NumChildren :
     ~GuardFails(i) /\ ~SkippedByGuard(i) /\ ChildAccepts(i)}

\* C6: on a request on which no evaluated child or guard fails, OneOf.Sift
\* returns Accept iff some non-skipped child accepts; the result is then the
\* Accept decision of the first such child and no later child is evaluated;
\* otherwise the result is the rejection strategy applied to the request.
C6_OneOfFirstAccept ==
  (Called /\ IsOneOf /\ NoEvaluatedFailure) =>
    /\ ReturnsAccept <=> AcceptingChildren # {}
    /\ AcceptingChildren # {} =>
         LET k == CHOOSE i \in AcceptingChildren :
                    \A j \in AcceptingChildren : i <= j
         IN  /\ ReturnsDecision(ChildOut(k).res)
             /\ ChildEvaluated(k)
             /\ NothingEvaluatedAfter(k)
    /\ AcceptingChildren = {} =>
         ReturnsDecision(ApplyRejection(sifter.reject, input))

\* The first child shadow-rejected and the second accepted the request.
C6_Witness ==
  /\ Called /\ IsOneOf /\ NumChildren = 2
  /\ ChildEvaluated(1) /\ ChildOut(1).res.Action = ActionShadowReject
  /\ ChildEvaluated(2) /\ ChildAccepts(2)
  /\ ReturnsAccept

(***************************************************************************)
(* C7.  The rejection of OneOf comes from its rejection strategy.          *)
(***************************************************************************)
\* The rejection that the most recent constructor or configuration call asks
\* for.
ConfiguredRejection ==
  CASE lastConfig.call = "OneOf" ->
         [ID |-> input.ID, Action |-> ActionReject,
          Msg |-> "blocked: any of sub-sifters didn't accept the event"]
    [] lastConfig.call = "RejectWithMsg" ->
         [ID |-> input.ID, Action |-> ActionReject, Msg |-> lastConfig.msg]
    [] lastConfig.call = "ShadowReject" ->
         [ID |-> input.ID, Action |-> ActionShadowReject, Msg |-> ""]
    [] lastConfig.call = "RejectWithMsgFromInput" ->
         [ID |-> input.ID, Action |-> ActionReject, Msg |-> MsgFromID[input.ID]]

\* C7: when no child of a OneOf accepts (and none fails), the result is the
\* rejection of the OneOf's own strategy and not a child's: Reject with the
\* default message after OneOf(...), Reject with m after RejectWithMsg(m),
\* ShadowReject after ShadowReject(), Reject with f(request) after
\* RejectWithMsgFromInput(f); the most recent configuration call wins.
C7_OneOfRejection ==
  (/\ Called /\ IsOneOf /\ NoEvaluatedFailure
   /\ \A i \in 1..NumChildren : ChildEvaluated(i) => ~ChildAccepts(i))
    => ReturnsDecision(ConfiguredRejection)

\* After two configuration calls, the last of them RejectWithMsgFromInput,
\* both children rejected the request and OneOf rejected with f(request).
C7_Witness ==
  /\ Called /\ IsOneOf /\ NumChildren = 2
  /\ lastConfig.n = 2 /\ lastConfig.call = "RejectWithMsgFromInput"
  /\ ChildEvaluated(1) /\ ChildOut(1).res.Msg = "reject 1"
  /\ ChildEvaluated(2) /\ ChildOut(2).res.Action = ActionShadowReject
  /\ input.ID = "id2" /\ ret.res.Msg = "msg for id2"

(***************************************************************************)
(* C8.  A failing child aborts the combinator.                             *)
(***************************************************************************)
\* C8: if a child that Pipeline or OneOf evaluates fails, the combinator
\* returns that same failure and no decision, and evaluates none of the
\* remaining siblings (a OneOf whose failing child precedes an accepting one
\* returns the failure, not Accept).
C8_ChildFailureAborts ==
  Called =>
    \A i \in 1..NumChildren :
      (ChildEvaluated(i) /\ ChildFails(i)) =>
        /\ ReturnsFailure(ChildOut(i).err)
        /\ NothingEvaluatedAfter(i)

\* The first child of a OneOf failed ahead of an accepting second child.
C8_Witness ==
  /\ Called /\ IsOneOf /\ NumChildren = 2
  /\ ChildEvaluated(1) /\ ChildFails(1)
  /\ ~HasGuard(2) /\ ChildAccepts(2)
  /\ ret.err = "child failed"

(***************************************************************************)
(* C9.  A failing guard condition aborts the combinator.                   *)
(***************************************************************************)
\* C9: if the guard condition of a child fails during Pipeline or OneOf
\* evaluation, the combinator returns that failure and no decision; the
\* guarded child is not evaluated (nor treated as skipped), and no later
\* sibling is evaluated.
C9_GuardFailureAborts ==
  Called =>
    \A i \in 1..NumChildren :
      (CondEvaluated(i) /\ GuardFails(i)) =>
        /\ ReturnsFailure(CondOut(i).err)
        /\ ~ChildEvaluated(i)
        /\ NothingEvaluatedAfter(i)

\* The guard of the first child of a Pipeline failed ahead of a second child.
C9_Witness ==
  /\ Called /\ IsPipeline /\ NumChildren = 2
  /\ CondEvaluated(1) /\ GuardFails(1)
  /\ ChildRejects(2)
  /\ ret.err = "cond failed"

(***************************************************************************)
(* C10.  The admission rule of the rate limiter.                           *)
(***************************************************************************)
\* The request in is subject to the limit of the ByUser sifter: it comes
\* from an end-user, is not excluded, and has a key.
Limited(in) ==
  /\ in.SourceType \in {"IP4", "IP6"}
  /\ in.PubKey \notin sifter.exclude.pubkeys
  /\ sifter.uk = IPAddr => in.SourceInfo \in ValidIPAddrs

KeyOf(in) == IF sifter.uk = PubKey THEN in.PubKey ELSE in.SourceInfo

\* The theoretical arrival time of key when a check is made at time now:
\* the current time on the key's first check.
TATOf(key) == IF store[key] = NoTAT THEN now ELSE store[key]

\* The check of key at time now is admitted: now >= TAT - B*T.
Admitted(key) ==
  now >= TATOf(key) - sifter.limiter.MaxBurst * sifter.limiter.period

\* A step in which the host calls Sift.
SiftStep == ~ret.called /\ ret'.called

\* C10: a check of a key at time now is admitted iff now >= TAT - B*T, where
\* TAT is the current time on the key's first check; an admitted check sets
\* TAT to max(TAT, now) + T; the sifter returns Accept exactly when the check
\* is admitted and the decision of its rejection strategy when it is denied.
C10_AdmissionRule ==
  [][(SiftStep /\ Limited(input')) =>
       /\ Admitted(KeyOf(input')) =>
            /\ ret'.err = NoErr
            /\ ret'.res = [ID |-> input'.ID, Action |-> ActionAccept, Msg |-> ""]
            /\ store'[KeyOf(input')]
                 = Max(TATOf(KeyOf(input')), now) + sifter.limiter.period
       /\ ~Admitted(KeyOf(input')) =>
            /\ ret'.err = NoErr
            /\ ret'.res = ApplyRejection(sifter.reject, input')
            /\ ret'.res.Action # ActionAccept]_vars

\* A check of a key was denied at a later time than the key's first check,
\* under a quota with a burst, and the sifter shadow-rejected the request.
C10_Witness ==
  /\ sifter.type = "rateLimit" /\ sifter.limiter.MaxBurst = 1
  /\ ret.called /\ Limited(input) /\ now > 0
  /\ ~Admitted(KeyOf(input))
  /\ ret.res.Action = ActionShadowReject

(***************************************************************************)
(* C11.  A denied check leaves the limiter state alone.                    *)
(***************************************************************************)
\* The sifter turned the request of the last call down.
Denied(r) ==
  r.called /\ r.err = NoErr /\ r.res.Action \in {ActionReject, ActionShadowReject}

\* The earliest time at which a check of key is admitted: TAT - B*T.
NextAdmitAt(st, key) ==
  st[key] - sifter.limiter.MaxBurst * sifter.limiter.period

\* C11: a denied rate-limit check leaves the TAT of its key (and of every
\* other key) unchanged, so the time at which the key is next admitted is
\* the same as before the denied check, however many denied checks are made.
C11_DeniedLeavesTAT ==
  [][(SiftStep /\ Limited(input') /\ Denied(ret')) =>
       /\ store' = store
       /\ store[KeyOf(input')] # NoTAT
       /\ NextAdmitAt(store', KeyOf(input')) = NextAdmitAt(store, KeyOf(input'))
       /\ NextAdmitAt(store', KeyOf(input')) > now]_vars

\* A check was denied at a time after the key's first check, and the key is
\* still to be admitted later.
C11_Witness ==
  /\ sifter.type = "rateLimit"
  /\ Limited(input) /\ Denied(ret) /\ now > 0
  /\ NextAdmitAt(store, KeyOf(input)) > now

(***************************************************************************)
(* C12.  Burst capacity.                                                   *)
(***************************************************************************)
\* The quota of the ByUser sifter: its burst B and emission interval T.
BurstB == sifter.limiter.MaxBurst

IntervalT == sifter.limiter.period

\* The positions of the log at which the key was checked at time t.
ChecksAt(t) == {i \in 1..Len(log) : log[i].t = t}

\* The number of checks at time t up to position i of the log.
RankAt(t, i) == Cardinality({j \in ChecksAt(t) : j <= i})

Min(a, b) == IF a <= b THEN a ELSE b

\* C12: of the checks made on a fresh key at one instant (the instant of
\* the key's first check), the first B+1 are admitted and every further one
\* is denied; with burst 0 only the first is admitted.
C12_BurstCapacity ==
  \A i \in 1..Len(log) :
    log[i].t = log[1].t =>
      (log[i].accepted <=> RankAt(log[1].t, i) <= BurstB + 1)

\* With burst 1, four checks at the instant of the first one: two admitted,
\* two denied.
C12_Witness ==
  /\ BurstB = 1 /\ Len(log) >= 4 /\ log[4].t = log[1].t
  /\ log[1].accepted /\ log[2].accepted
  /\ ~log[3].accepted /\ ~log[4].accepted

(***************************************************************************)
(* C13.  Linear healing.                                                   *)
(***************************************************************************)
\* The number of checks admitted at time t.
AdmittedAt(t) == Cardinality({i \in ChecksAt(t) : log[i].accepted})

\* The times after t at which the key was checked.
CheckTimesAfter(t) == {log[i].t : i \in {j \in 1..Len(log) : log[j].t > t}}

\* The time of the first check after time t.
NextCheckAfter(t) ==
  CHOOSE u \in CheckTimesAfter(t) : \A v \in CheckTimesAfter(t) : u <= v

\* The times and the decisions of the first n checks.
TimesOf(n) == [i \in 1..n |-> log[i].t]

DecisionsOf(n) == [i \in 1..n |-> log[i].accepted]

\* C13: when the key had B+1 checks admitted at one instant t0 and is next
\* checked k*T later, exactly the first min(k, B+1) checks of that instant
\* are admitted and the following ones are denied.  Instances: rate 1/s,
\* burst 0: Accept, Reject at 0, Accept at 1; rate 1/s, burst 1: Accept,
\* Accept, Reject at 0, Accept, Reject at 1, Accept, Accept at 3.
C13_LinearHealing ==
  /\ \A i \in 1..Len(log) :
       LET t0 == log[i].t
       IN  (AdmittedAt(t0) = BurstB + 1 /\ CheckTimesAfter(t0) # {}) =>
             LET t1 == NextCheckAfter(t0)
             IN  (t1 - t0) % IntervalT = 0 =>
                   \A j \in ChecksAt(t1) :
                     log[j].accepted <=>
                       RankAt(t1, j) <= Min((t1 - t0) \div IntervalT, BurstB + 1)
  /\ (IntervalT = 1 /\ BurstB = 0 /\ Len(log) >= 3
        /\ TimesOf(3) = <<0, 0, 1>>)
       => DecisionsOf(3) = <<TRUE, FALSE, TRUE>>
  /\ (IntervalT = 1 /\ BurstB = 1 /\ Len(log) >= 7
        /\ TimesOf(7) = <<0, 0, 0, 1, 1, 3, 3>>)
       => DecisionsOf(7) = <<TRUE, TRUE, FALSE, TRUE, FALSE, TRUE, TRUE>>

\* The scenario of rate 1/s with burst 1 was run to its end: the burst was
\* used up at time 0, one check was admitted and one denied a second later.
C13_Witness ==
  /\ IntervalT = 1 /\ BurstB = 1 /\ Len(log) = 7
  /\ TimesOf(7) = <<0, 0, 0, 1, 1, 3, 3>>
  /\ AdmittedAt(0) = 2 /\ AdmittedAt(1) = 1 /\ ~log[5].accepted

(***************************************************************************)
(* C14.  Concurrent checks of one key are serialized.                      *)
(***************************************************************************)
\* The goroutines whose call of Sift on key has returned Accept.
AcceptedOn(key) ==
  {p \in Procs : /\ procs[p].pc = "done" /\ procs[p].key = key
                 /\ procs[p].res.Action = ActionAccept}

\* C14: under every interleaving of concurrent calls of Sift that derive the
\* same key, each admitted check has its TAT update in the store (none is
\* lost: after A admissions the TAT is at least A*T), no check fails, and at
\* one instant on a fresh key at most B+1 of the checks are admitted.
C14_ChecksSerialized ==
  \A key \in PubKeys :
    LET A == Cardinality(AcceptedOn(key))
    IN  /\ \A p \in Procs : procs[p].err = NoErr
        /\ A = 0 <=> store[key] = NoTAT
        /\ A > 0 =>
             /\ A * IntervalT <= store[key]
             /\ store[key] <= now + (BurstB + 1) * IntervalT
        /\ now = 0 => A <= BurstB + 1

\* Three calls on one key at one instant, under a quota with burst 1: two
\* were accepted and one rejected, and a compare-and-swap was tried again.
C14_Witness ==
  /\ now = 0 /\ BurstB = 1
  /\ \A p \in Procs : procs[p].pc = "done" /\ procs[p].key = "1"
  /\ Cardinality(AcceptedOn("1")) = 2
  /\ \E p \in Procs : procs[p].attempts > 0

(***************************************************************************)
(* C15.  Per-identity isolation.                                           *)
(***************************************************************************)
\* The store st with the state of every key but key replaced by v.
OthersSetTo(st, key, v) == [k \in LimitKeys |-> IF k = key THEN st[k] ELSE v]

PerKind == sifter.type = "rateLimitPerKind"

\* The request in comes from an end-user whose identity the sifter can tell.
HasIdentity(in) ==
  /\ in.SourceType \in {"IP4", "IP6"}
  /\ in.PubKey \notin sifter.exclude.pubkeys
  /\ sifter.uk = IPAddr => in.SourceInfo \in ValidIPAddrs

\* The entries of ByUserAndKind whose kind predicate matches the request.
Matching(in) ==
  {i \in 1..Len(sifter.limiters) : in.Kind \in sifter.limiters[i].matchKind}

FirstMatching(in) == CHOOSE i \in Matching(in) : \A j \in Matching(in) : i <= j

\* The key of the request under ByUserAndKind: its identity and its kind.
KindKeyOf(in) == KeyOf(in) \o "/" \o ToString(in.Kind)

\* C16: ByUserAndKind checks a request against the quota of the first
\* entry, in list order, whose kind predicate matches the request's kind,
\* and of that entry only: the check is admitted iff now >= TAT - B*T for
\* that entry's B and T.  A request whose kind matches no entry is accepted
\* without a state check, whatever the state of the quotas.
C16_FirstMatchingQuota ==
  [][(SiftStep /\ PerKind /\ HasIdentity(input')) =>
       IF Matching(input') = {}
         THEN /\ ret'.res = Accept(input').res /\ ret'.err = NoErr
              /\ ret'.calls = <<>>
              /\ store' = store
         ELSE LET i == FirstMatching(input')
                  q == sifter.limiters[i].rateLimiter.quota
                  key == KindKeyOf(input')
                  admitted == now >= TATOf(key) - q.MaxBurst * q.period
              IN  /\ ret'.calls = <<<<"RateLimitCtx", i, key>>>>
                  /\ ret'.err = NoErr
                  /\ ret'.res.Action = ActionAccept <=> admitted
                  /\ admitted =>
                       store'[key] = Max(TATOf(key), now) + q.period
                  /\ ~admitted => store' = store]_vars

\* Two entries match the request's kind, the quota of the first was
\* applied, and it let through a request the second would have denied.
C16_Witness ==
  /\ PerKind /\ ret.called /\ HasIdentity(input)
  /\ Cardinality(Matching(input)) = 2
  /\ ret.calls = <<<<"RateLimitCtx", 1, KindKeyOf(input)>>>>
  /\ ret.res.Action = ActionAccept
  /\ store[KindKeyOf(input)]
       = now + 2 * sifter.limiters[1].rateLimiter.quota.period

(***************************************************************************)
(* C17.  The state of the quotas of ByUserAndKind.                         *)
(***************************************************************************)
Entries == 1..Len(sifter.limiters)

\* No key has been asked about by the rate limiters of two entries.
NoKeyOfTwoEntries == \A key \in LimitKeys : Cardinality(touched[key]) <= 1

C18_KeyedByIdentityAndKind ==
  [][(SiftStep /\ PerKind /\ HasIdentity(input')
        /\ Matching(input') # {}) =>
       LET key == KindKeyOf(input')
       IN  /\ Len(ret'.calls) = 1 /\ ret'.calls[1][3] = key
           /\ \A k \in Kinds \ {input'.Kind} :
                store'[KindKey(KeyOf(input'), k)]
                  = store[KindKey(KeyOf(input'), k)]
           /\ \A k \in LimitKeys \ {key} : store'[k] = store[k]
           /\ \A v \in {NoTAT} \cup 0..MaxTime :
                rateLimitSift(sifter, input', OthersSetTo(store, key, v),
                              now).res = ret'.res
           /\ store[key] = NoTAT => ret'.res.Action = ActionAccept]_vars

\* Under one quota of one event per tick for kinds 1 and 7, a kind 7 event
\* was accepted at the instant at which a kind 1 event of the same user was.
C18_Witness ==
  /\ PerKind /\ Len(sifter.limiters) = 1
  /\ sifter.limiters[1].matchKind = {1, 7}
  /\ ret.called /\ HasIdentity(input) /\ input.Kind = 7
  /\ ret.res.Action = ActionAccept
  /\ store[KindKey(KeyOf(input), 1)] = now + 1
  /\ store[KindKey(KeyOf(input), 7)] = now + 1

(***************************************************************************)
(* C19.  Requests that do not come from end-users are never limited.       *)
(***************************************************************************)
\* C19: ByUser and ByUserAndKind, in both user-key modes, accept every
\* request whose source type is neither IP4 nor IP6 (Import, Stream, Sync),
\* in every limiter state, without a state check and without changing the
\* limiter state.
C19_NonEndUserAccepted ==
  [][(SiftStep /\ input'.SourceType \notin {"IP4", "IP6"}) =>
       /\ ret'.res = [ID |-> input'.ID, Action |-> ActionAccept, Msg |-> ""]
       /\ ret'.err = NoErr
       /\ ret'.calls = <<>>
       /\ store' = store]_vars

\* A relayed event was accepted while the key of its author was used up, so
\* that the same event sent by a client would have been rejected.
C19_Witness ==
  /\ sifter.uk = PubKey
  /\ ret.called /\ input.SourceType = "Sync"
  /\ ret.res.Action = ActionAccept
  /\ \/ sifter.type = "rateLimit" /\ store[input.PubKey] > now
     \/ /\ PerKind /\ Matching(input) # {}
        /\ store[KindKey(input.PubKey, input.Kind)] > now

(***************************************************************************)
(* C20.  Requests matching the Exclude predicate are never limited.        *)
(***************************************************************************)
\* The request in matches the predicate configured with Exclude.
Excluded(in) == in.PubKey \in sifter.exclude.pubkeys

\* C20: the rate-limiting sifter accepts every request that matches the
\* predicate configured with Exclude, whatever the state of the request's
\* key (also when the key is used up), without a state check and without
\* changing the limiter state; the requests on the same sifter that do not
\* match are still limited: accepted iff the check of their key is admitted.
C20_ExcludedAccepted ==
  [][SiftStep =>
       /\ Excluded(input') =>
            /\ ret'.res = [ID |-> input'.ID, Action |-> ActionAccept, Msg |-> ""]
            /\ ret'.err = NoErr
            /\ ret'.calls = <<>>
            /\ store' = store
       /\ (~Excluded(input') /\ Limited(input')) =>
            (ret'.res.Action = ActionAccept <=> Admitted(KeyOf(input')))]_vars

\* An excluded user's request was accepted from an IP address whose key is
\* used up, so that another user's request from there would be rejected.
C20_Witness ==
  /\ sifter.type = "rateLimit" /\ sifter.uk = IPAddr
  /\ sifter.exclude.pubkeys # {}
  /\ ret.called /\ Excluded(input) /\ ret.res.Action = ActionAccept
  /\ input.SourceType = "IP4" /\ input.SourceInfo \in ValidIPAddrs
  /\ store[input.SourceInfo] # NoTAT
  /\ ~Admitted(input.SourceInfo)

(***************************************************************************)
(* C21.  Requests from an unknown address are not limited.                 *)
(***************************************************************************)
\* C21: with user key IPAddr, ByUser and ByUserAndKind accept every
\* end-user request whose source info is not a valid IP address, in every
\* limiter state, without a state check and without changing the limiter
\* state, so that any number of them is accepted.
C21_UnknownSourceAccepted ==
  [][(SiftStep /\ sifter.uk = IPAddr
        /\ input'.SourceType \in {"IP4", "IP6"}
        /\ input'.SourceInfo \notin ValidIPAddrs) =>
       /\ ret'.res = [ID |-> input'.ID, Action |-> ActionAccept, Msg |-> ""]
       /\ ret'.err = NoErr
       /\ ret'.calls = <<>>
       /\ store' = store]_vars

\* A request from an unknown address was accepted by a ByUser sifter without
\* burst that was at that time rejecting the requests of a known address.
C21_Witness ==
  /\ sifter.type = "rateLimit" /\ sifter.uk = IPAddr
  /\ sifter.limiter.MaxBurst = 0
  /\ ret.called /\ input.SourceType = "IP4"
  /\ input.SourceInfo = UnknownSource
  /\ ret.res.Action = ActionAccept
  /\ \E k \in ValidIPAddrs : store[k] > now

(***************************************************************************)
(* C22: if the state check of the limiter fails or exceeds its deadline,   *)
(* the rate-limit sifter returns that failure and no Decision.             *)
(***************************************************************************)
\* The state check made by the call of Sift of this step failed.
CheckFailed ==
  /\ SiftStep
  /\ Len(log') = Len(log) + 1
  /\ log'[Len(log')].failure # NoErr

\* C22: a call of Sift whose state check fails returns the failure of the
\* check and a nil result, never Accept and never a rejection, and leaves
\* the store as it was.
C22_FailedCheckIsFailure ==
  [][CheckFailed =>
       /\ ~ret'.panicked
       /\ ret'.res = NilResult
       /\ ret'.err = log'[Len(log')].failure
       /\ store' = store]_vars

\* A state check failed on the deadline for a user whose earlier request was
\* admitted, and the sifter returned the failure.
C22_Witness ==
  /\ ret.called
  /\ Len(log) = 2
  /\ log[1].failure = NoErr
  /\ log[2].failure = "context deadline exceeded"
  /\ log[2].key = log[1].key
  /\ ret.err = "context deadline exceeded"
  /\ ret.res = NilResult

(***************************************************************************)
(* C23: the table of shouldAccept, and the decision of a leaf unit.        *)
(***************************************************************************)
\* The call of Sift of this step called shouldAccept.
ShouldAcceptCalled == SiftStep /\ log' # <<>>

\* C23: shouldAccept(Match, mode) is mode = Allow, shouldAccept(Mismatch,
\* mode) is mode = Deny, shouldAccept(AlwaysAccept, mode) is true and
\* shouldAccept(AlwaysReject, mode) is false; and the leaf unit returns Accept
\* iff shouldAccept holds, and the decision of its rejection strategy if not.
C23_ShouldAcceptTable ==
  [][ShouldAcceptCalled =>
       LET e == log'[1]
       IN  /\ e.matchRes = inputMatch => (e.accept <=> e.mode = Allow)
           /\ e.matchRes = inputMismatch => (e.accept <=> e.mode = Deny)
           /\ e.matchRes = inputAlwaysAccept => e.accept
           /\ e.matchRes = inputAlwaysReject => ~e.accept
           /\ ~ret'.panicked /\ ret'.err = NoErr
           /\ e.accept =>
                ret'.res = [ID |-> input'.ID, Action |-> ActionAccept,
                            Msg |-> ""]
           /\ ~e.accept =>
                /\ ret'.res = ApplyRejection(sifter.reject, input')
                /\ ret'.res.Action # ActionAccept]_vars

\* A unit in Deny mode whose rejection strategy was replaced accepted a
\* mismatching request, after shouldAccept(Mismatch, Deny).
C23_Witness ==
  /\ sifter.type = "sifterUnit" /\ sifter.mode = Deny
  /\ sifter.reject = ShadowReject
  /\ ret.called /\ log # <<>>
  /\ log[1].matchRes = inputMismatch /\ log[1].accept
  /\ ret.res.Action = ActionAccept

(***************************************************************************)
(* C24: a leaf unit made with a Mode other than Allow and Deny.            *)
(***************************************************************************)
\* C24: a leaf unit whose Mode is neither Allow nor Deny never returns
\* Accept, whatever its matcher yields.
C24_UnknownModeNeverAccepts ==
  (ret.called /\ sifter.type = "sifterUnit" /\ sifter.mode \notin {Allow, Deny})
    => ret.res.Action # ActionAccept

(***************************************************************************)
(* C25: every decision carries the ID of the event of its request.         *)
(***************************************************************************)
\* The last call of the sifter handed back a decision.
ReturnedDecision == ret.called /\ ~ret.panicked /\ ret.res # NilResult

C26_EvaluationYieldsDecisionOrFailure ==
  (ret.called /\ runner.line.hasEvent /\ ~IsLimiter(sifter)) =>
    /\ ~ret.panicked
    /\ \/ ret.err # NoErr
       \/ ret.res.Action \in {ActionAccept, ActionReject, ActionShadowReject}

(***************************************************************************)
(* C27: Run writes one decision line per request line, in order.           *)
(***************************************************************************)
\* C27: Run does not stop before the end of standard input, and the lines
\* it has written answer the lines it has read, one each and in order.
C27_OneDecisionPerRequest ==
  /\ runner.pc # "panicked"
  /\ Len(runner.stdout) = runner.read
  /\ \A i \in 1..Len(runner.stdout) : runner.stdout[i].req = i
  /\ runner.pc = "exited" => runner.stdin = <<>>

(***************************************************************************)
(* C28: a failure of the sifter becomes a Reject in Run.                   *)
(***************************************************************************)
\* C28: when the sifter returned an error for a request, Run has written a
\* Reject for that request, with the message "error: event sifter failed to
\* process input", and goes on.
C28_FailureRejectedAtHost ==
  (ret.called /\ ~ret.panicked /\ ret.err # NoErr) =>
    /\ runner.pc # "panicked"
    /\ runner.stdout # <<>>
    /\ LET o == runner.stdout[Len(runner.stdout)]
       IN  /\ o.req = runner.read
           /\ o.out = [ID |-> input.ID, Action |-> ActionReject,
                       Msg |-> SifterFailedMsg]

(***************************************************************************)
(* C29: the accept-early flag has no effect inside OneOf.                  *)
(***************************************************************************)
\* The OneOf whose children have their accept-early flags set to flag.
WithFlags(s, flag) ==
  [s EXCEPT !.children =
     [i \in DOMAIN s.children |-> [s.children[i] EXCEPT !.acceptEarly = flag]]]

\* The last call handed back what the call s.Sift(input) hands back, after
\* evaluating the same guards and children.
SameAsSift(s) ==
  LET r == Sift(s, input)
  IN  /\ ret.res = r.res
      /\ ret.err = r.err
      /\ ret.panicked = r.panicked
      /\ ret.calls = r.calls

\* C29: a OneOf returns the same decision or failure, and evaluates the same
\* guards and children, as the OneOf of the same children without any
\* accept-early flag and as the one with the flag on every child.
C29_AcceptEarlyIgnoredInOneOf ==
  (Called /\ IsOneOf) =>
    /\ SameAsSift(WithFlags(sifter, FALSE))
    /\ SameAsSift(WithFlags(sifter, TRUE))

\* A OneOf went past a rejecting first child that carries the accept-early
\* flag, and returned the Accept of its second child.
C29_Witness ==
  /\ Called /\ IsOneOf
  /\ NumChildren = 2
  /\ sifter.children[1].acceptEarly
  /\ ~sifter.children[2].acceptEarly
  /\ ret.calls = <<<<"sift", 1>>, <<"sift", 2>>>>
  /\ ret.err = NoErr /\ ret.res.Action = ActionAccept

(***************************************************************************)
(* C30: a modifier wrapper evaluated directly delegates.                   *)
(***************************************************************************)
RECURSIVE Unwrapped(_)
\* The unit inside the wrappers of s.
Unwrapped(s) == IF s.type = "modded" THEN Unwrapped(s.s) ELSE s

\* C30: a call of Sift on a modifier wrapper that is the root, around a unit
\* or around another wrapper, returns what the wrapped unit returns on the
\* same request, whatever the wrapper's guard, accept-early flag and label.
C30_WrapperDelegates ==
  (Called /\ sifter.type = "modded" /\ runner.line.hasEvent) =>
    SameAsSift(Unwrapped(sifter))

\* A wrapper whose guard fails returned the Reject of the unit it wraps.
C30_Witness ==
  /\ Called /\ sifter.type = "modded"
  /\ sifter.onlyIfCond # <<>>
  /\ sifter.onlyIfCond[1].cond.type = "failingUnit"
  /\ ret.err = NoErr
  /\ ret.res = [ID |-> "id1", Action |-> ActionReject, Msg |-> "blocked"]


\* ---------------------------------------------------------------------------
\* Concurrent evaluations of one tree: each process calls Sift on a request
\* while the clock read by CreatedAtRange goes on.

\* The creation times of the events.
CreatedAts == {-1, 0, 2}

\* The deltas of the time ranges, 0 for no limit.
RangeDeltas == {0, 1}

EvalLeaves ==
  {CreatedAtRange(RelativeTimeRange(dp, df), mode) :
     dp \in RangeDeltas, df \in {1}, mode \in {Allow, Deny}}

\* The trees evaluated: a time range alone, under a wrapper, in a Pipeline
\* and in a OneOf, and trees with no time range in them.
EvalTrees ==
  LET range == CreatedAtRange(RelativeTimeRange(1, 1), Allow)
  IN  EvalLeaves
        \cup {WithMod(range), OnlyIf(WithMod(acceptAll), range),
              Pipeline(<<range, acceptAll>>),
              Pipeline(<<AcceptEarly(WithMod(range)), rejectAll("reject 1")>>),
              OneOf(<<rejectAll("reject 1"), range>>),
              Pipeline(<<acceptAll, rejectAll("reject 1")>>),
              OneOf(<<shadowRejectAll, acceptAll>>)}

\* The requests: an event and its creation time.
EvalInputs == {Input(id, "pubkey", 1, "IP4", "192.168.1.1") : id \in {"id1"}}

\* An evaluation: where it is, its request, the value of the clock it read
\* and what it returned.
IdleEval ==
  [pc |-> "idle", in |-> NoInput, createdAt |-> 0, clk |-> 0,
   res |-> NilResult, err |-> NoErr, panicked |-> FALSE]

InitEval ==
  /\ sifter \in EvalTrees
  /\ lastConfig = [call |-> "CreatedAtRange", msg |-> "", n |-> 0]
  /\ input = NoInput
  /\ ret = NoRet
  /\ store = EmptyStore
  /\ now = 0
  /\ log = <<>>
  /\ touched = NoTouched
  /\ procs = [p \in Procs |-> IdleEval]
  /\ runner = NoRunner

\* A process calls sifter.Sift(in).
EvalCall ==
  \E p \in Procs, in \in EvalInputs, c \in CreatedAts :
    /\ procs[p].pc = "idle"
    /\ procs' = [procs EXCEPT ![p] = [@ EXCEPT !.pc = "sifting", !.in = in,
                                               !.createdAt = c]]
    /\ UNCHANGED <<sifter, lastConfig, input, ret, store, now, log, touched,
                   runner>>

\* The call returns: the tree is walked, a time range in it reads the
\* clock, and nothing but the process's own result is written.
EvalReturn ==
  \E p \in Procs :
    /\ procs[p].pc = "sifting"
    /\ LET r == Sift(sifter, Timed(procs[p].in, procs[p].createdAt, now))
       IN  procs' = [procs EXCEPT ![p] = [@ EXCEPT !.pc = "done", !.clk = now,
                                                   !.res = r.res,
                                                   !.err = r.err,
                                                   !.panicked = r.panicked]]
    /\ UNCHANGED <<sifter, lastConfig, input, ret, store, now, log, touched,
                   runner>>

\* The clock goes on.
EvalTick ==
  /\ now < MaxConcTime
  /\ now' = now + 1
  /\ UNCHANGED <<sifter, lastConfig, input, ret, store, log, touched, procs,
                 runner>>

NextEval ==
  \/ EvalCall
  \/ EvalReturn
  \/ EvalTick

SpecEval == InitEval /\ [][NextEval]_vars

\* The evaluations that have returned.
Evaluated == {p \in DOMAIN procs : procs[p].pc = "done"}

\* Two evaluations of the same request.
SameRequest(p, q) ==
  /\ procs[p].in = procs[q].in
  /\ procs[p].createdAt = procs[q].createdAt

\* Two evaluations returned the same.
SameReturn(p, q) ==
  /\ procs[p].res = procs[q].res
  /\ procs[p].err = procs[q].err
  /\ procs[p].panicked = procs[q].panicked

\* The tree is a time range alone.
IsTimeRange ==
  sifter.type = "sifterUnit" /\ sifter.match.fn = "CreatedAtRange"

\* The event of p is within the deltas of the clock value p read.
WithinDeltas(p) ==
  LET r == sifter.match.timeRange
  IN  /\ r.MaxPastDelta # 0 => procs[p].createdAt >= procs[p].clk - r.MaxPastDelta
      /\ r.MaxFutureDelta # 0 =>
           procs[p].createdAt <= procs[p].clk + r.MaxFutureDelta

CondUnits ==
  CondSifters
    \cup {Pipeline(<<acceptAll, rejectAll("cond rejected")>>),
          OneOf(<<rejectAll("cond rejected"), acceptAll>>)}

\* The bodies: leaves, combinators, and a conditional.
BodyUnits ==
  ChildSifters
    \cup {Pipeline(<<acceptAll, shadowRejectAll>>),
          OneOf(<<rejectAll("reject 1"), acceptAll>>),
          IfNotThen(acceptAll, rejectAll("reject 1"))}

CondTrees ==
  {IfThen(c, b) : c \in CondUnits, b \in BodyUnits}
    \cup {IfNotThen(c, b) : c \in CondUnits, b \in BodyUnits}

InitCond ==
  /\ sifter \in CondTrees
  /\ lastConfig = [call |-> "IfThen", msg |-> "", n |-> 0]
  /\ input = NoInput
  /\ ret = NoRet
  /\ store = EmptyStore
  /\ now = 0
  /\ log = <<>>
  /\ touched = NoTouched
  /\ procs = NoProcs
  /\ runner = NoRunner

\* A call sifter.Sift(in) by the host.
CondSiftCall ==
  /\ ~ret.called
  /\ SiftCall

NextCond ==
  \/ CondSiftCall
  \/ LimiterEmit

SpecCond == InitCond /\ [][NextCond]_vars

\* What the condition of the conditional returns on the input.
CondReturn == Sift(sifter.cond, input)

\* The condition returned a decision.
CondDecided ==
  /\ ~CondReturn.panicked
  /\ CondReturn.err = NoErr
  /\ CondReturn.res # NilResult

\* The body is evaluated: IfThen on Accept, IfNotThen on anything else.
BodyRequired == sifter.ifAccepted = (CondReturn.res.Action = ActionAccept)

\* C32: IfThen(cond, body) returns what body returns when cond's action is
\* Accept, and Accept without evaluating body otherwise; IfNotThen(cond,
\* body) returns what body returns when cond's action is not Accept, and
\* Accept without evaluating body otherwise.
C32_ConditionalReturnsBodyOrAccept ==
  Called /\ sifter.type = "ifThen" /\ CondDecided =>
    LET b == Sift(sifter.body, input)
    IN  IF BodyRequired
          THEN /\ ret.res = b.res /\ ret.err = b.err
               /\ ret.panicked = b.panicked
               /\ ret.calls = <<<<"cond", 1>>, <<"sift", 1>>>>
          ELSE /\ ret.res = Accept(input).res /\ ret.err = NoErr
               /\ ~ret.panicked
               /\ ret.calls = <<<<"cond", 1>>>>

\* An IfNotThen whose condition rejected returned the rejection of its body.
C32_Witness ==
  /\ Called /\ sifter.type = "ifThen" /\ ~sifter.ifAccepted
  /\ CondDecided /\ CondReturn.res.Action = ActionReject
  /\ ret.res.Action = ActionReject /\ ret.res.Msg = "reject 1"


\* The matcher function of the sifter was called on the input and returned
\* a non-nil error.
MatcherFailed ==
  /\ sifter.type = "sifterUnit"
  /\ CASE sifter.match.fn = "SourceIPMatcher" ->
            /\ IsEndUser(input.SourceType)
            /\ input.SourceInfo \in ValidIPAddrs
            /\ input.SourceInfo \in sifter.match.matcher.fails
       [] sifter.match.fn = "AuthorMatcher" ->
            input.PubKey \in sifter.match.matcher.fails
       [] sifter.match.fn = "KindMatcherFallible" ->
            input.Kind \in sifter.match.matcher.fails
       [] OTHER -> FALSE

IsSourceIPSifter ==
  \/ sifter.type = "sourceIPSifter"
  \/ sifter.type = "sifterUnit" /\ sifter.match.fn = "SourceIPMatcher"

\* The mode for unknown sources the sifter was made with.
ModeForUnknownSource ==
  IF sifter.type = "sourceIPSifter" THEN sifter.modeForUnknownSource
  ELSE sifter.match.modeForUnknownSource

\* The matcher of the sifter holds for the source address of the input,
\* and does not hold or fails.
SourceMatches ==
  IF sifter.type = "sourceIPSifter"
    THEN input.SourceInfo \in sifter.matchWithSourceIP
    ELSE input.SourceInfo \in sifter.match.matcher.matches

SourceMatcherFails ==
  /\ sifter.type = "sifterUnit"
  /\ input.SourceInfo \in sifter.match.matcher.fails

\* The call returned the decision Accept.
ReturnedAccept ==
  ~ret.panicked /\ ret.err = NoErr /\ ret.res.Action = ActionAccept

\* The call returned a rejection.
ReturnedRejection ==
  /\ ~ret.panicked /\ ret.err = NoErr
  /\ ret.res.Action \in {ActionReject, ActionShadowReject}

\* C34: a sifter made by SourceIPMatcher or SourceIPPrefixList accepts
\* every input that is not from an end user, in every mode; an input of an
\* end user whose source is no address it accepts if modeForUnknownSource is
\* Allow and rejects otherwise; an input of an end user with an address it
\* accepts or rejects by the matcher and the mode.
C34_ProvenanceBypassesMode ==
  Called /\ IsSourceIPSifter =>
    /\ ~IsEndUser(input.SourceType) => ReturnedAccept
    /\ IsEndUser(input.SourceType) /\ input.SourceInfo \notin ValidIPAddrs =>
         IF ModeForUnknownSource = Allow THEN ReturnedAccept
         ELSE ReturnedRejection
    /\ /\ IsEndUser(input.SourceType)
       /\ input.SourceInfo \in ValidIPAddrs
       /\ ~SourceMatcherFails
       => IF \/ sifter.mode = Allow /\ SourceMatches
             \/ sifter.mode = Deny /\ ~SourceMatches
            THEN ReturnedAccept
            ELSE ReturnedRejection

\* C34 of the sifters that SourceIPMatcher makes as leaf units only.
C34_OfLeafUnits == sifter.type = "sifterUnit" => C34_ProvenanceBypassesMode


\* The last call got to child i: to its guard, or to the child.
Reached(i) == CondEvaluated(i) \/ ChildEvaluated(i)

\* C35: in a Pipeline an accept-early child ends the evaluation with Accept
\* only if it was evaluated and accepted; if its guard skips it, it is not
\* evaluated and the Pipeline goes on to the next child; if it is evaluated
\* and returns Reject or ShadowReject, the Pipeline returns that decision and
\* evaluates nothing after it.
C35_AcceptEarlyOnlyWhenEvaluated ==
  (Called /\ IsPipeline) =>
    \A i \in 1..NumChildren :
      sifter.children[i].acceptEarly =>
        /\ /\ i < NumChildren /\ Reached(i) /\ NothingEvaluatedAfter(i)
           /\ ReturnsAccept
           => ChildEvaluated(i) /\ ChildAccepts(i)
        /\ Reached(i) /\ SkippedByGuard(i) =>
             /\ ~ChildEvaluated(i)
             /\ i < NumChildren => Reached(i + 1)
        /\ ChildEvaluated(i) /\ ChildRejects(i) =>
             /\ ReturnsDecision(ChildOut(i).res)
             /\ NothingEvaluatedAfter(i)

\* An accepting accept-early first child was skipped by its guard, and the
\* Pipeline returned the rejection of the second child.
C35_Witness ==
  /\ Called /\ IsPipeline /\ NumChildren = 2
  /\ sifter.children[1].acceptEarly /\ ChildAccepts(1)
  /\ Reached(1) /\ SkippedByGuard(1) /\ ~ChildEvaluated(1)
  /\ ChildEvaluated(2) /\ ChildRejects(2)
  /\ ReturnsDecision(ChildOut(2).res)


\* The checks i..j of the log that the sifter accepted.
AdmittedBetween(i, j) ==
  Cardinality({k \in i..j : log[k].accepted /\ log[k].key = log[i].key})

MaxCompliantChecks == 5

\* The requests of the two users.
CompliantInputs == {Input("id1", pk, 1, "IP4", "192.168.1.1") : pk \in PubKeys}

InitCompliant ==
  /\ sifter \in {ByUser(q, PubKey) : q \in Quotas}
  /\ lastConfig = [call |-> "ByUser", msg |-> "", n |-> 0]
  /\ input = NoInput
  /\ ret = NoRet
  /\ store = EmptyStore
  /\ now = 0
  /\ log = <<>>
  /\ touched = NoTouched
  /\ procs = NoProcs
  /\ runner = NoRunner

\* A call sifter.Sift(in) by the host, logged.
CompliantSiftCall ==
  /\ ~ret.called
  /\ Len(log) < MaxCompliantChecks
  /\ \E in \in CompliantInputs :
       LET r == rateLimitSift(sifter, in, store, now)
       IN  /\ input' = in
           /\ ret' = [called |-> TRUE, res |-> r.res, err |-> r.err,
                      panicked |-> r.panicked, calls |-> r.calls]
           /\ store' = r.store
           /\ log' = Logged(r)
  /\ UNCHANGED <<sifter, lastConfig, now, touched, procs, runner>>

NextCompliant ==
  \/ Tick
  \/ CompliantSiftCall
  \/ LimiterEmit

SpecCompliant == InitCompliant /\ [][NextCompliant]_vars

\* The checks logged for the key k.
ChecksOf(k) == {i \in 1..Len(log) : log[i].key = k}

\* Consecutive checks for the key k are at least T apart.
Compliant(k) ==
  \A i, j \in ChecksOf(k) : i < j => log[j].t - log[i].t >= IntervalT

\* C37: if the consecutive checks for a key are at least T apart, every one
\* of them is admitted, for every burst and whatever checks are made for
\* other keys in between.
C37_CompliantNeverThrottled ==
  \A k \in PubKeys :
    Compliant(k) => \A i \in ChecksOf(k) : log[i].accepted

\* Without burst, two checks of one user an interval apart were admitted,
\* with a denied check of the other user between them.
C37_Witness ==
  /\ BurstB = 0
  /\ \E i, j, m \in 1..Len(log) :
       /\ i < m /\ m < j
       /\ log[i].key = "1" /\ log[j].key = "1" /\ log[m].key = "2"
       /\ Compliant("1") /\ ~log[m].accepted
       /\ log[i].accepted /\ log[j].accepted


\* ---------------------------------------------------------------------------
\* Requests that bypass the limiter among those that do not: a host calls
\* Sift on a rate-limiting sifter, with or without an exclusion, as time goes
\* on.

\* The requests: those of one user, of every kind and source, and the
\* requests of a second user from the same address.
BypassInputs ==
  PerKindInputs \cup {Input("id1", "2", k, "IP4", "192.168.1.1") : k \in {1, 7}}

\* The sifters, as made and after Exclude with a predicate on the author.
BypassSifters ==
  LET lists == {<<ForKinds(Quota(MaxPeriod, 0), {1}),
                   ForKinds(Quota(1, 0), {7})>>,
                 <<>>}
      made == {ByUserAndKind(qs, uk) : qs \in lists, uk \in {IPAddr, PubKey}}
                \cup {ByUser(Quota(1, 0), uk) : uk \in {IPAddr, PubKey}}
  IN  made \cup {[s EXCEPT !.exclude = ExcludePubKeys({"2"})] : s \in made}

InitBypass ==
  /\ sifter \in BypassSifters
  /\ lastConfig = [call |-> "Exclude", msg |-> "", n |-> 0]
  /\ input = NoInput
  /\ ret = NoRet
  /\ store = EmptyStore
  /\ now = 0
  /\ log = <<>>
  /\ touched = NoTouched
  /\ procs = NoProcs
  /\ runner = NoRunner

\* A call sifter.Sift(in) by the host.
BypassSiftCall ==
  /\ ~ret.called
  /\ \E in \in BypassInputs :
       LET r == rateLimitSift(sifter, in, store, now)
       IN  /\ input' = in
           /\ ret' = [called |-> TRUE, res |-> r.res, err |-> r.err,
                      panicked |-> r.panicked, calls |-> r.calls]
           /\ store' = r.store
  /\ UNCHANGED <<sifter, lastConfig, now, log, touched, procs, runner>>

NextBypass ==
  \/ Tick
  \/ BypassSiftCall
  \/ LimiterEmit

SpecBypass == InitBypass /\ [][NextBypass]_vars

\* The request in bypasses limiting: it matches the exclusion predicate, is
\* not from an end user, has no valid address while users are told apart by
\* address, or is of a kind no quota is for.
Bypasses(in) ==
  \/ Excluded(in)
  \/ in.SourceType \notin {"IP4", "IP6"}
  \/ sifter.uk = IPAddr /\ in.SourceInfo \notin ValidIPAddrs
  \/ PerKind /\ Matching(in) = {}

\* C38: a call of Sift with a request that bypasses limiting makes no state
\* check and leaves the state of every key as it was, so that every request
\* at every later time gets the return it would have got without the call.
C38_BypassLeavesStateAlone ==
  [][(SiftStep /\ Bypasses(input')) =>
       /\ ret'.calls = <<>>
       /\ store' = store
       /\ \A in \in BypassInputs, t \in now..MaxTime :
            rateLimitSift(sifter, in, store', t)
              = rateLimitSift(sifter, in, store, t)]_vars

\* The request of an excluded user was let through from an address whose
\* key is used up, and the key is still used up.
C38_Witness ==
  /\ ret.called /\ Excluded(input) /\ Bypasses(input)
  /\ sifter.type = "rateLimit" /\ sifter.uk = IPAddr
  /\ ret.calls = <<>> /\ ret.res.Action = ActionAccept
  /\ store[input.SourceInfo] > now

====
